---- MODULE Spec2Model ----
(***************************************************************************)
(* A model of github.com/edoger/zkits-logger: the record pipeline of       *)
(* log.go (gate, pooled entity, format, hooks, write, terminal action,     *)
(* deferred release) and the two revisions of the rotating file writer     *)
(* (file_writer.go: RWMutex + atomic counter + swap; the later revision:   *)
(* Mutex + rotate + reopen by the next Write).                             *)
(***************************************************************************)
EXTENDS Integers, Sequences, FiniteSets, TLC

Nil == "nil"

\* ------------------------------------------------------------------ bounds

MaxSetup == 2      \* setup calls (setters, AddHook, With*) made on one logger
SmallLen == 40     \* size of an ordinary formatted record
BigLen == 5000     \* size of an oversized formatted record
NumWriters == 2    \* goroutines writing to one file writer
MaxWrites == 3     \* Write calls made on one file writer
MaxFaults == 1     \* file system calls that fail
MaxTime == 1       \* instants the clock of the backup names moves through
MaxCloses == 2     \* Close calls made on one file writer

\* ------------------------------------------------------------------ level.go

PanicLevel == 1
FatalLevel == 2
ErrorLevel == 3
WarnLevel == 4
InfoLevel == 5
DebugLevel == 6
TraceLevel == 7

\* Level is a uint32: 0 and 8 stand for the values outside the declared set.
Levels == 0..8

IsValid(level) == level <= TraceLevel /\ level >= PanicLevel

IsEnabledNoZeroCheck(level, l) == l <= level

IsEnabled(level, l) == l <= level /\ l > 0

\* ------------------------------------------------------------------ the pipeline's data

LoggerName == "svc"
DefaultTimeFormat == "rfc3339"
PooledBufferCap == 4096
SmallBufferSize == 64
OutLens == {0, SmallLen, PooledBufferCap, BigLen}

\* sync.Pool.New: new(logEntity), the zero value.
NewEntity ==
  [name |-> "", time |-> "t0", timeFormat |-> "", level |-> 0, message |-> "",
   fields |-> {}, ctx |-> Nil, caller |-> <<>>, stack |-> <<>>,
   buf |-> <<>>, len |-> 0, cap |-> 0]

\* The root handle of a logger: log{core: newCore(name)}. fields is the content of
\* the handle's field map and map the identity of that map (0: the nil map), which
\* handles may share; by records the WithField call that made the handle's fields,
\* as <<the fields of the handle it was called on, key, value>>.
RootHandle ==
  [fields |-> {}, map |-> 0, by |-> <<>>,
   ctx |-> Nil, caller |-> <<>>, prefix |-> "", stack |-> FALSE]

NoCall == [h |-> RootHandle, level |-> 0, message |-> ""]

Ev(ev, arg, n, data) == [ev |-> ev, arg |-> arg, n |-> n, data |-> data]

\* What a formatter renders of an entity into the buffer.
Render(o) == <<o.name, o.time, o.level, o.message, o.fields, o.ctx, o.caller, o.stack>>

\* bytes.Buffer growth when n bytes are written into an empty buffer of capacity c.
Grow(c, n) ==
  IF n <= c THEN c
  ELSE IF c = 0 /\ n <= SmallBufferSize THEN SmallBufferSize
  ELSE 2 * c + n

VARIABLES
  core,      \* the shared core of the logger
  nsetup,    \* setup calls made so far
  nhooks,    \* hooks handed to AddHook so far
  handles,   \* the Log handles that exist
  pool,      \* core.pool: the entities at rest in the sync.Pool
  pc,        \* where the calling goroutine is in its logging call
  call,      \* the handle, level and message of the call
  entity,    \* the entity the call holds
  selw,      \* the writer the format output selected for the record
  trace,     \* what the current call has done so far
  alive,     \* FALSE once os.Exit has ended the process
  fw,        \* the file writer: its revision, handle, running size and max
  disk,      \* the log directory: the primary file and the backup files
  now,       \* the clock the backup names are stamped with
  writers,   \* the goroutines calling fileWriter.Write, and where each one is
  mu,        \* fileWriter.mu: the goroutine holding the (write) lock, or 0
  clear,     \* prune requests pending: the token in w.clear, or the clearBackups goroutines
  hist,      \* history: writes, faults, threshold crossings, rotations
  wr,        \* the writers that wrap other writers: a multi-writer, a mutex writer
  js         \* the JSON formatter and the object it encoded last

logVars == <<core, nsetup, nhooks, handles, pool, pc, call, entity, selw, trace, alive>>

fwVars == <<fw, disk, now, writers, mu, clear, hist, wr, js>>

\* No wrapping writer: the state of wr while other parts are studied.
NoWrapper == [kind |-> Nil]

\* No JSON formatter: the state of js while other parts are studied.
NoFormatter == [kind |-> Nil]

\* newCore: the configuration a new logger starts with.
NewCore ==
  [name |-> LoggerName, level |-> TraceLevel, formatOutput |-> FALSE,
   writer |-> "stdout", levelWriter |-> [l \in Levels |-> Nil],
   hooks |-> [l \in Levels |-> <<>>], enableHooks |-> TRUE,
   timeFormat |-> DefaultTimeFormat, exitFunc |-> "exit", panicFunc |-> "panic",
   caller |-> <<>>, callerSkip |-> 0, callerLong |-> FALSE,
   levelCaller |-> [l \in Levels |-> <<>>], interceptor |-> FALSE]

LogInit ==
  /\ core = NewCore
  /\ nsetup = 0
  /\ nhooks = 0
  /\ handles = {RootHandle}
  /\ pool = {}
  /\ pc = "idle"
  /\ call = NoCall
  /\ entity = NewEntity
  /\ selw = Nil
  /\ trace = <<>>
  /\ alive = TRUE

\* ------------------------------------------------------------------ logger.go: setters

\* The setters other than SetLevel are for the setup phase: no call is in progress.
Quiet == alive /\ pc = "idle"

Configure(c) ==
  /\ Quiet
  /\ nsetup < MaxSetup
  /\ c # core
  /\ core' = c
  /\ nsetup' = nsetup + 1
  /\ UNCHANGED <<nhooks, handles, pool, pc, call, entity, selw, trace, alive>>
  /\ UNCHANGED fwVars

\* A SetLevel without the level.IsValid test.
SetLevelAny(level) ==
  /\ alive
  /\ core' = [core EXCEPT !.level = level]
  /\ UNCHANGED <<nsetup, nhooks, handles, pool, pc, call, entity, selw, trace, alive>>
  /\ UNCHANGED fwVars

\* SetLevel: an invalid level is ignored; the store is atomic, so it may run at any time.
SetLevel(level) ==
  /\ alive
  /\ IsValid(level)
  /\ core' = [core EXCEPT !.level = level]
  /\ UNCHANGED <<nsetup, nhooks, handles, pool, pc, call, entity, selw, trace, alive>>
  /\ UNCHANGED fwVars

SetOutput(w) == Configure([core EXCEPT !.writer = IF w = Nil THEN "stdout" ELSE w])

SetLevelOutput(level, w) == Configure([core EXCEPT !.levelWriter[level] = w])

SetOutputInterceptor(f) == Configure([core EXCEPT !.interceptor = f])

SetExitFunc(f) == Configure([core EXCEPT !.exitFunc = IF f = Nil THEN "return" ELSE f])

SetPanicFunc(f) == Configure([core EXCEPT !.panicFunc = IF f = Nil THEN "return" ELSE f])

SetFormatOutput(fo) == Configure([core EXCEPT !.formatOutput = fo])

\* internal.NewCallerReporter: a reporter is its skip; <<>> stands for the nil pointer.
NewCallerReporter(skip) == <<skip>>

Skip(reporter) == reporter[1]

EnableCaller(skip) ==
  Configure([core EXCEPT !.caller = NewCallerReporter(IF skip > 0 THEN skip ELSE 0)])

EnableLevelCaller(level, skip) ==
  Configure([core EXCEPT !.levelCaller[level] =
                               NewCallerReporter(IF skip > 0 THEN skip ELSE 0)])

EnableHook(ok) == Configure([core EXCEPT !.enableHooks = ok])

\* ------------------------------------------------------------------ hook bag

\* The level lists a hook may declare: empty, only invalid, valid, mixed.
HookLevelLists ==
  {<<>>, <<0>>, <<InfoLevel>>, <<PanicLevel, FatalLevel, 8>>}

RECURSIVE HookBagAddAny(_, _, _)
\* A hookBag.Add without the level.IsValid test.
HookBagAddAny(hooks, hook, levels) ==
  IF levels = <<>> THEN hooks
  ELSE HookBagAddAny([hooks EXCEPT ![Head(levels)] = Append(@, hook)], hook, Tail(levels))

RECURSIVE HookBagAdd(_, _, _)
\* hookBag.Add: the hook is appended under every valid level of its list.
HookBagAdd(hooks, hook, levels) ==
  IF levels = <<>> THEN hooks
  ELSE LET level == Head(levels)
           next == IF IsValid(level)
                   THEN [hooks EXCEPT ![level] = Append(@, hook)]
                   ELSE hooks
       IN HookBagAdd(next, hook, Tail(levels))

AddHook(levels) ==
  /\ Quiet
  /\ nsetup < MaxSetup
  /\ nsetup' = nsetup + 1
  /\ nhooks' = nhooks + 1
  /\ core' = [core EXCEPT !.hooks = HookBagAdd(@, nhooks + 1, levels)]
  /\ UNCHANGED <<handles, pool, pc, call, entity, selw, trace, alive>>
  /\ UNCHANGED fwVars

\* ------------------------------------------------------------------ log.go: handles

\* A field map is a set of <<key, value>> pairs with unique keys.
Keys(fields) == {kv[1] : kv \in fields}

\* Fields.Clone then r[key] = value.
SetField(fields, key, value) == {kv \in fields : kv[1] # key} \cup {<<key, value>>}

\* m[key] = value on the map m: every handle holding that map sees the entry.
Store(hs, m, key, value) ==
  {[h EXCEPT !.fields = IF h.map = m THEN SetField(@, key, value) ELSE @] : h \in hs}

\* The maps the handles hold are numbered in the order they were made.
NewMap(hs) == 1 + Cardinality({h.map : h \in hs} \ {0})

\* A WithField that sets the key in the map of the handle it is called on.
CloneShares(hs, o) == IF o.fields = {} THEN NewMap(hs) ELSE o.map

\* The map of the new handle's fields: internal.Fields{key: value} if o has no
\* fields, else o.fields.Clone(1); a new map either way.
Clone(hs, o) == NewMap(hs)

\* A With* that changes the handle it is called on and returns it.
DeriveInPlace(hs, o, r) == (hs \ {o}) \cup {r}

\* return &log{...}: the handle returned is a new one, o stays as it is.
Derive(hs, o, r) == hs \cup {r}

\* A With* call of the setup phase that leaves the handles hs.
NewHandles(hs) ==
  /\ Quiet
  /\ nsetup < MaxSetup
  /\ hs # handles
  /\ handles' = hs
  /\ nsetup' = nsetup + 1
  /\ UNCHANGED <<core, nhooks, pool, pc, call, entity, selw, trace, alive>>
  /\ UNCHANGED fwVars

\* A With* call on o whose result is the handle h (o itself if nothing changes).
NewHandle(o, h) == NewHandles(IF h = o THEN handles ELSE Derive(handles, o, h))

WithMessagePrefix(o, prefix) == NewHandle(o, [o EXCEPT !.prefix = prefix])

WithField(o, key, value) ==
  LET r == [o EXCEPT !.map = Clone(handles, o), !.by = <<o.fields, key, value>>]
  IN NewHandles(Store(Derive(handles, o, r), r.map, key, value))

WithContext(o, ctx) == NewHandle(o, [o EXCEPT !.ctx = ctx])

WithCaller(o, skip) ==
  NewHandle(o, [o EXCEPT !.caller = NewCallerReporter(IF skip > 0 THEN skip ELSE 0)])

WithStack(o) == NewHandle(o, [o EXCEPT !.stack = TRUE])

\* ------------------------------------------------------------------ log.go: one logging call

\* internal.GetCaller(skipped, long): the call site found skipped frames up.
GetCaller(skipped, long) == <<"caller", skipped, long>>

\* A log.getCaller that looks at the global reporter before the one of the level.
LogGetCallerGlobalFirst(o, level) ==
  LET own == IF o.caller = <<>> THEN 0 ELSE Skip(o.caller)
  IN IF core.caller # <<>>
     THEN GetCaller(Skip(core.caller) + own + core.callerSkip, core.callerLong)
     ELSE IF core.levelCaller[level] # <<>>
          THEN GetCaller(Skip(core.levelCaller[level]) + own + core.callerSkip,
                         core.callerLong)
          ELSE IF o.caller = <<>> THEN <<>>
               ELSE GetCaller(own + core.callerSkip, core.callerLong)

\* log.getCaller
LogGetCaller(o, level) ==
  IF o.caller = <<>>
  THEN IF core.levelCaller[level] # <<>>
       THEN GetCaller(Skip(core.levelCaller[level]) + core.callerSkip, core.callerLong)
       ELSE IF core.caller # <<>>
            THEN GetCaller(Skip(core.caller) + core.callerSkip, core.callerLong)
            ELSE <<>>
  ELSE IF core.levelCaller[level] # <<>>
       THEN GetCaller(Skip(core.levelCaller[level]) + Skip(o.caller) + core.callerSkip,
                      core.callerLong)
       ELSE IF core.caller # <<>>
            THEN GetCaller(Skip(core.caller) + Skip(o.caller) + core.callerSkip,
                           core.callerLong)
            ELSE GetCaller(Skip(o.caller) + core.callerSkip, core.callerLong)

\* core.nowFunc(): the instant the clock reports.
Now == "t1"

\* core.getEntity: stamp the entity o taken from the pool for a call on handle l.
GetEntity(o, l, level, message, caller) ==
  [o EXCEPT !.name = core.name, !.time = Now, !.timeFormat = core.timeFormat,
            !.level = level, !.message = message, !.ctx = l.ctx,
            !.caller = caller, !.fields = l.fields]

ScrubKeepStack(o) ==
  [o EXCEPT !.buf = <<>>, !.len = 0,
            !.cap = IF o.cap > PooledBufferCap THEN 0 ELSE o.cap,
            !.name = "", !.timeFormat = "", !.message = "", !.fields = {},
            !.ctx = Nil, !.caller = <<>>]

\* core.putEntity: what the entity looks like when it goes back to the pool.
Scrub(o) ==
  [o EXCEPT !.buf = <<>>, !.len = 0,
            !.cap = IF o.cap > PooledBufferCap THEN 0 ELSE o.cap,
            !.name = "", !.timeFormat = "", !.message = "", !.fields = {},
            !.ctx = Nil, !.caller = <<>>, !.stack = <<>>]

\* A getWriter that does not look at the level writers.
GetWriterDefault(o) == core.writer

\* log.getWriter: the level writer of the record's level, else the default writer.
GetWriter(o) ==
  IF core.levelWriter[o.level] # Nil THEN core.levelWriter[o.level] ELSE core.writer

CallFrame == UNCHANGED <<core, nsetup, nhooks, handles, alive>> /\ UNCHANGED fwVars

Emit(events) == trace' = trace \o events

\* log.log: the gate; a disabled level returns at once, an enabled one enters
\* log.record, which takes an entity from the pool and defers its release.
Log(o, level, message) ==
  /\ alive
  /\ pc = "idle"
  /\ call' = [h |-> o, level |-> level, message |-> message]
  /\ IF ~IsEnabled(core.level, level)
     THEN /\ pc' = "done"
          /\ UNCHANGED <<pool, entity, selw, trace>>
     ELSE /\ \E got \in (IF pool = {} THEN {NewEntity} ELSE pool) :
               /\ pool' = pool \ {got}
               /\ entity' = GetEntity(got, o, level, o.prefix \o message,
                                      LogGetCaller(o, level))
          /\ pc' = "format"
          /\ Emit(<<Ev("get", "", 0, <<>>)>>)
          /\ UNCHANGED selw
  /\ CallFrame

\* internal.GetStack: the call stack captured for a handle made by WithStack.
GetStack == <<"frame">>

AfterFormatWriteOnErr(err) == IF core.enableHooks /\ ~err THEN "hooks" ELSE "write"

AfterFormatHooksOnErr(err) == IF core.enableHooks THEN "hooks" ELSE "write"

AfterFormatNoRelease(err) ==
  IF err THEN "done" ELSE IF core.enableHooks THEN "hooks" ELSE "write"

\* log.record, after formatting: an error ends the logging of the record (the
\* terminal action and the deferred release remain); otherwise hooks, if enabled,
\* then the write.
AfterFormat(err) ==
  IF err THEN "terminal" ELSE IF core.enableHooks THEN "hooks" ELSE "write"

\* log.record, formatting: the stack is captured when the handle asks for it, then
\* the formatter (or the format output, which also selects a writer) renders the
\* entity into its buffer; either may fail, after writing part of its output.
Format ==
  /\ alive
  /\ pc = "format"
  /\ LET e == IF call.h.stack THEN [entity EXCEPT !.stack = GetStack] ELSE entity
     IN \E err \in BOOLEAN, n \in OutLens,
           w \in (IF core.formatOutput THEN {Nil, "fow"} ELSE {Nil}) :
          /\ err => (n = SmallLen /\ w = Nil)
          /\ LET out == [e EXCEPT !.buf = IF n = 0 THEN <<>> ELSE Render(e),
                                  !.len = n, !.cap = Grow(@, n)]
             IN /\ entity' = out
                /\ Emit(<<Ev("format", IF err THEN "err" ELSE "ok", n, out.buf)>>
                        \o IF err THEN <<Ev("echo", "format", 0, <<>>)>> ELSE <<>>)
          /\ selw' = w
          /\ pc' = AfterFormat(err)
  /\ UNCHANGED <<pool, call>>
  /\ CallFrame

\* A hookBag.Fire that goes on with the remaining hooks after one has failed.
FireAll(hs, k, failed) ==
  [i \in 1..Len(hs) |-> Ev("hook", IF failed /\ i = k THEN "err" ELSE "ok", hs[i], <<>>)]

\* hookBag.Fire: the hooks of the level run in order up to the first that fails;
\* k hooks run, and failed tells whether the k-th returned an error.
Fire(hs, k, failed) ==
  [i \in 1..k |-> Ev("hook", IF failed /\ i = k THEN "err" ELSE "ok", hs[i], <<>>)]

AfterHooksAbort(failed) == IF failed THEN "terminal" ELSE "write"

\* log.record, after the hooks: the write follows whether or not a hook failed.
AfterHooks(failed) == "write"

\* log.record, hooks: a hook error is reported and the record is still written.
Hooks ==
  /\ alive
  /\ pc = "hooks"
  /\ LET hs == core.hooks[entity.level]
     IN \E k \in 0..Len(hs), failed \in BOOLEAN :
          /\ failed => k >= 1
          /\ ~failed => k = Len(hs)
          /\ Emit(Fire(hs, k, failed)
                  \o IF failed THEN <<Ev("echo", "hook", 0, <<>>)>> ELSE <<>>)
          /\ pc' = AfterHooks(failed)
  /\ UNCHANGED <<pool, call, entity, selw>>
  /\ CallFrame

\* A log.write that reports the writer's error itself, before log.record does.
WriteEventsEchoTwice(o, w, err) ==
  LET to == IF w = Nil THEN GetWriter(o) ELSE w
      echo == IF err
              THEN <<Ev("echo", "write", 0, <<>>), Ev("echo", "write", 0, <<>>)>>
              ELSE <<>>
  IN IF ~core.interceptor
     THEN IF o.len > 0 THEN <<Ev("write", to, o.len, o.buf)>> \o echo ELSE <<>>
     ELSE <<Ev("intercept", to, o.len, o.buf)>> \o echo

\* A log.write that ignores the writer the format output returned.
WriteEventsToBound(o, w, err) ==
  LET to == GetWriter(o)
      echo == IF err THEN <<Ev("echo", "write", 0, <<>>)>> ELSE <<>>
  IN IF ~core.interceptor
     THEN IF o.len > 0 THEN <<Ev("write", to, o.len, o.buf)>> \o echo ELSE <<>>
     ELSE <<Ev("intercept", to, o.len, o.buf)>> \o echo

\* A log.write that drops the record when the format output returned no writer.
WriteEventsNoFallback(o, w, err) ==
  LET to == IF w = Nil THEN GetWriter(o) ELSE w
      echo == IF err THEN <<Ev("echo", "write", 0, <<>>)>> ELSE <<>>
  IN IF ~core.interceptor
     THEN IF o.len > 0 /\ ~(core.formatOutput /\ w = Nil)
          THEN <<Ev("write", to, o.len, o.buf)>> \o echo ELSE <<>>
     ELSE <<Ev("intercept", to, o.len, o.buf)>> \o echo

\* A log.write that falls back to the writer when the interceptor fails.
WriteEventsFallback(o, w, err) ==
  LET to == IF w = Nil THEN GetWriter(o) ELSE w
      echo == IF err THEN <<Ev("echo", "write", 0, <<>>)>> ELSE <<>>
  IN IF ~core.interceptor
     THEN IF o.len > 0 THEN <<Ev("write", to, o.len, o.buf)>> \o echo ELSE <<>>
     ELSE <<Ev("intercept", to, o.len, o.buf)>>
          \o (IF err THEN <<Ev("write", to, o.len, o.buf)>> ELSE <<>>) \o echo

\* log.write: the events of writing entity o, w being the format output's writer
\* (or Nil) and err the outcome of the writer or interceptor.
WriteEvents(o, w, err) ==
  LET to == IF w = Nil THEN GetWriter(o) ELSE w
      echo == IF err THEN <<Ev("echo", "write", 0, <<>>)>> ELSE <<>>
  IN IF ~core.interceptor
     THEN IF o.len > 0 THEN <<Ev("write", to, o.len, o.buf)>> \o echo ELSE <<>>
     ELSE <<Ev("intercept", to, o.len, o.buf)>> \o echo

Write ==
  /\ alive
  /\ pc = "write"
  /\ \E err \in BOOLEAN :
       /\ (err /\ ~core.interceptor) => entity.len > 0
       /\ Emit(WriteEvents(entity, selw, err))
  /\ pc' = "terminal"
  /\ UNCHANGED <<pool, call, entity, selw>>
  /\ CallFrame

TerminalActionBelowFatal(level) ==
  IF level < FatalLevel /\ level = FatalLevel THEN "exit"
  ELSE IF level < FatalLevel /\ level = PanicLevel THEN "panic"
  ELSE "none"

\* log.record: if level < ErrorLevel { switch level { case FatalLevel: ... case PanicLevel: ... } }
TerminalAction(level) ==
  IF level < ErrorLevel /\ level = FatalLevel THEN "exit"
  ELSE IF level < ErrorLevel /\ level = PanicLevel THEN "panic"
  ELSE "none"

\* A panic function that is handed the message of the record.
PanicMessageOfRecord(c, e) == e.message

\* o.core.panicFunc(message): the message parameter of log.record.
PanicMessage(c, e) == c.message

AfterPanicFuncNoDefer(f) == IF f = "panic" THEN "panicked" ELSE "defer"

\* The panic function was called inside log.record, whose putEntity is deferred:
\* a panic unwinds through the release, a return reaches it.
AfterPanicFunc(f) == IF f = "panic" THEN "unwind" ELSE "defer"

\* log.record, the terminal action: exitFunc(1) after a Fatal record, panicFunc(message)
\* after a Panic record. os.Exit ends the process; a panic unwinds through the
\* deferred putEntity.
Terminal ==
  /\ alive
  /\ pc = "terminal"
  /\ IF TerminalAction(call.level) = "exit"
     THEN /\ Emit(<<Ev("exit", core.exitFunc, 1, <<>>)>>)
          /\ alive' = (core.exitFunc # "exit")
          /\ pc' = IF core.exitFunc = "exit" THEN "exited" ELSE "defer"
     ELSE IF TerminalAction(call.level) = "panic"
     THEN /\ Emit(<<Ev("panic", PanicMessage(call, entity), 0, <<>>)>>)
          /\ pc' = AfterPanicFunc(core.panicFunc)
          /\ UNCHANGED alive
     ELSE /\ pc' = "defer"
          /\ UNCHANGED <<trace, alive>>
  /\ UNCHANGED <<core, nsetup, nhooks, handles, pool, call, entity, selw>>
  /\ UNCHANGED fwVars

\* The deferred core.putEntity: runs when log.record returns or unwinds.
PutEntity ==
  /\ alive
  /\ pc \in {"defer", "unwind"}
  /\ pool' = pool \cup {Scrub(entity)}
  /\ entity' = NewEntity
  /\ Emit(<<Ev("put", "", 0, <<>>)>>)
  /\ pc' = IF pc = "unwind" THEN "panicked" ELSE "done"
  /\ UNCHANGED <<call, selw>>
  /\ CallFrame

\* The call is over: it returned, or its panic reached the caller.
Return ==
  /\ alive
  /\ pc \in {"done", "panicked"}
  /\ pc' = "idle"
  /\ call' = NoCall
  /\ selw' = Nil
  /\ trace' = <<>>
  /\ UNCHANGED <<pool, entity>>
  /\ CallFrame

\* ------------------------------------------------------------------ the file writers' data

\* Two revisions of fileWriter are in the repository: "swap" (file_writer.go: an
\* RWMutex around the handle, an atomic running size, Write then swap) and "rotate"
\* (the later revision: one Mutex, Write then rotate, the file reopened by the next
\* Write).
Impls == {"swap", "rotate"}

Writers == 1..NumWriters

\* The size of a file that does not exist (os.IsNotExist).
Absent == -1

\* File sizes and the running size (a uint32) are byte counts; those of the model
\* stay far below 2^32, where uint32 arithmetic is that of the integers.
FileMaxes == {0, 3}
FileSizes == {Absent, 2, 3, 5}
FileBackups == {0, 1}
WriteLens == {0, 1, 2}

\* w.name + "." + suffix
SwapBackupName(stamp) == <<"app.log", ".", stamp>>

\* newBackupFileName: dir/name-<time>ext
NewBackupFileName(stamp) == <<"app", "-", stamp, ".log">>

\* A goroutine that is not inside Write. len: the bytes handed to Write and not yet
\* to the file, n: the bytes the file took and the running size has yet to count, sum: the running size this call computed (Absent if it computed
\* none), rot: the rotations this call carried out, seen: the rotations done when it
\* computed sum.
IdleWrite == [pc |-> "idle", len |-> 0, n |-> 0, sum |-> Absent, rot |-> 0, seen |-> 0]

\* A goroutine that never calls the writer.
NoWriter == [IdleWrite EXCEPT !.pc = "off"]

NoRotation == [name |-> <<>>, renamed |-> FALSE]

NewHist(armed, made) ==
  [writes |-> 0, faults |-> 0, episodes |-> IF armed THEN 1 ELSE 0,
   rotations |-> 0, failed |-> 0, last |-> NoRotation, made |-> made,
   closes |-> <<>>, dropped |-> 0]

\* The directory with the file name bound to a file of the given size.
Put(files, name, bytes) ==
  [f \in DOMAIN files \cup {name} |-> IF f = name THEN bytes ELSE files[f]]

RenameKeepsPrimary(d, name) == [d EXCEPT !.backups = Put(@, name, d.primary)]

\* os.Rename(path, name): the primary file moves to the backup name, replacing a
\* file of that name.
Rename(d, name) == [primary |-> Absent, backups |-> Put(d.backups, name, d.primary)]

\* The running size is at or above the limit.
Armed(size, max) == max > 0 /\ size >= max

\* NewFileWriter of file_writer.go: the file is created or opened for append and,
\* when max > 0, its size becomes the running size.
NewSwapWriter(max, backup, pre) ==
  LET bytes == IF pre = Absent THEN 0 ELSE pre
  IN [fw |-> [impl |-> "swap", file |-> "open", max |-> max, backup |-> backup,
              size |-> IF max > 0 THEN bytes ELSE 0],
      disk |-> [primary |-> bytes, backups |-> <<>>]]

\* An open() that also renames a file of exactly max bytes.
OpenAtMax(d, max, stamp) ==
  IF d.primary = Absent
  THEN [disk |-> [d EXCEPT !.primary = 0], size |-> 0]
  ELSE IF max > 0 /\ d.primary >= max
       THEN [disk |-> [Rename(d, NewBackupFileName(stamp)) EXCEPT !.primary = 0],
             size |-> 0]
       ELSE [disk |-> d, size |-> d.primary]

\* An open() that opens whatever file is there for append.
OpenNeverRenames(d, max, stamp) ==
  IF d.primary = Absent
  THEN [disk |-> [d EXCEPT !.primary = 0], size |-> 0]
  ELSE [disk |-> d, size |-> d.primary]

\* fileWriter.open of the later revision, when every file system call succeeds: a
\* missing file is created; a file larger than max is renamed to a backup and a new
\* one created; any other file is opened for append, its size the running size.
Open(d, max, stamp) ==
  IF d.primary = Absent
  THEN [disk |-> [d EXCEPT !.primary = 0], size |-> 0]
  ELSE IF max > 0 /\ d.primary > max
       THEN [disk |-> [Rename(d, NewBackupFileName(stamp)) EXCEPT !.primary = 0],
             size |-> 0]
       ELSE [disk |-> d, size |-> d.primary]

\* NewFileWriter of the later revision: open().
NewRotateWriter(max, backup, pre, stamp) ==
  LET o == Open([primary |-> pre, backups |-> <<>>], max, stamp)
  IN [fw |-> [impl |-> "rotate", file |-> "open", max |-> max, backup |-> backup,
              size |-> o.size],
      disk |-> o.disk]

NewFileWriter(impl, max, backup, pre, stamp) ==
  IF impl = "swap" THEN NewSwapWriter(max, backup, pre)
  ELSE NewRotateWriter(max, backup, pre, stamp)

\* A clean() that queues every request.
CleanQueues(pending) == pending + 1

\* clean() of the later revision: a send on w.clear, a channel of capacity 1, with a
\* default branch: afterwards one token is in the channel, whether or not one was.
Clean(pending) == 1

\* The requests clean() drops: 1 if the token was in the channel already.
Dropped(pending) == IF pending >= 1 THEN 1 ELSE 0

\* open() calls clean() after it renamed an oversized file: a token goes into w.clear.
Cleaned(before, after) == IF DOMAIN after.backups # DOMAIN before.backups THEN 1 ELSE 0

\* No file writer: the state of these variables while the pipeline is studied.
FwOff ==
  /\ fw = [impl |-> Nil, file |-> "nil", max |-> 0, backup |-> 0, size |-> 0]
  /\ clear = 0
  /\ disk = [primary |-> Absent, backups |-> <<>>]
  /\ now = 0
  /\ writers = [p \in Writers |-> IdleWrite]
  /\ mu = 0
  /\ hist = NewHist(FALSE, {})

\* A file writer made by NewFileWriter(name, max, backup) on a path holding pre bytes.
FwStart(impl, max, backup, pre) ==
  LET new == NewFileWriter(impl, max, backup, pre, 0)
  IN /\ fw = new.fw
     /\ disk = new.disk
     /\ clear = Cleaned([primary |-> pre, backups |-> <<>>], new.disk)
     /\ hist = NewHist(Armed(new.fw.size, max), DOMAIN new.disk.backups)

FwInit ==
  /\ \E impl \in Impls, max \in FileMaxes, pre \in FileSizes : FwStart(impl, max, 0, pre)
  /\ now = 0
  /\ writers = [p \in Writers |-> IdleWrite]
  /\ mu = 0

LogFrame == UNCHANGED logVars /\ UNCHANGED <<wr, js>>

\* The goroutine that calls Write next: idle goroutines are alike, the first one is taken.
Idlest(p) == writers[p].pc = "idle" /\ \A q \in Writers : q < p => writers[q].pc # "idle"

\* A file system call may fail while the fault budget lasts.
MayFail(ok) == ~ok => hist.faults < MaxFaults

Faults(ok) == hist.faults + (IF ok THEN 0 ELSE 1)

\* The names of the files in the directory that carry the given stamp.
Stamped(stamp) == {SwapBackupName(stamp), NewBackupFileName(stamp)} \cap DOMAIN disk.backups

\* The clock moves on. Stamps are only compared with each other, so the instants
\* that matter are those at which a backup was named.
Tick ==
  /\ fw.impl # Nil
  /\ now < MaxTime
  /\ Stamped(now) # {}
  /\ now' = now + 1
  /\ UNCHANGED <<fw, disk, writers, mu, clear, hist>>
  /\ LogFrame

\* Write has returned to its caller.
WriterReturn(p) ==
  /\ writers[p].pc = "ret"
  /\ writers' = [writers EXCEPT ![p] = IdleWrite]
  /\ UNCHANGED <<fw, disk, now, mu, clear, hist>>
  /\ LogFrame

\* ------------------------------------------------------------------ file_writer.go: Write and swap

\* Write, first half: under the read lock, fd.Write(b). A closed handle takes
\* nothing; an open one takes all of b or, failing, none of it; one that Close is
\* closing at the same time (Close holds the read lock too) takes all or nothing.
SwapWriterWrite(p, len) ==
  /\ fw.impl = "swap"
  /\ Idlest(p)
  /\ hist.writes < MaxWrites
  /\ mu = 0
  /\ \E ok \in BOOLEAN :
       /\ fw.file = "open" => MayFail(ok)
       /\ fw.file = "closed" => ok
       /\ LET n == IF fw.file # "closed" /\ ok THEN len ELSE 0
          IN /\ disk' = [disk EXCEPT !.primary = @ + n]
             /\ writers' = [writers EXCEPT ![p] =
                              [IdleWrite EXCEPT !.pc = "add", !.n = n]]
       /\ hist' = [hist EXCEPT !.writes = @ + 1,
                     !.faults = IF fw.file = "open" THEN Faults(ok) ELSE @]
  /\ UNCHANGED <<fw, now, mu, clear>>
  /\ LogFrame

\* Write, second half:
\* if n > 0 && w.max > 0 && atomic.AddUint32(&w.size, uint32(n)) >= w.max { w.swap() }
SwapWriterAdd(p) ==
  /\ fw.impl = "swap"
  /\ writers[p].pc = "add"
  /\ IF writers[p].n > 0 /\ fw.max > 0
     THEN LET sum == fw.size + writers[p].n
          IN /\ fw' = [fw EXCEPT !.size = sum]
             /\ writers' = [writers EXCEPT ![p].n = 0, ![p].sum = sum,
                              ![p].seen = hist.rotations,
                              ![p].pc = IF sum >= fw.max THEN "swap" ELSE "ret"]
             /\ hist' = [hist EXCEPT !.episodes =
                           @ + (IF ~Armed(fw.size, fw.max) /\ Armed(sum, fw.max)
                                THEN 1 ELSE 0)]
     ELSE /\ writers' = [writers EXCEPT ![p].n = 0, ![p].pc = "ret"]
          /\ UNCHANGED <<fw, hist>>
  /\ UNCHANGED <<disk, now, mu, clear>>
  /\ LogFrame

SwapNeverSkips(size, max) == FALSE

\* swap, under the write lock: if atomic.LoadUint32(&w.size) < w.max { return }
SwapSkips(size, max) == size < max

\* swap, first half: Lock (which waits for the read lock of a Close), the size check, Sync, Close, and Rename to the stamped
\* backup name (a failure is reported and the swap goes on).
Swap(p) ==
  /\ fw.impl = "swap"
  /\ writers[p].pc = "swap"
  /\ mu = 0
  /\ fw.file # "closing"
  /\ IF SwapSkips(fw.size, fw.max)
     THEN /\ writers' = [writers EXCEPT ![p].pc = "ret"]
          /\ UNCHANGED <<fw, disk, mu, hist>>
     ELSE \E ok \in BOOLEAN :
            /\ MayFail(ok)
            /\ disk.primary = Absent => ok
            /\ LET renamed == ok /\ disk.primary # Absent
                   name == SwapBackupName(now)
               IN /\ disk' = IF renamed THEN Rename(disk, name) ELSE disk
                  /\ hist' = [hist EXCEPT !.faults = Faults(ok),
                                !.last = [name |-> name, renamed |-> renamed],
                                !.made = IF renamed THEN @ \cup {name} ELSE @]
            /\ fw' = [fw EXCEPT !.file = "closed"]
            /\ mu' = p
            /\ writers' = [writers EXCEPT ![p].pc = "reopen"]
  /\ UNCHANGED <<now, clear>>
  /\ LogFrame

\* swap, second half: OpenFile with O_CREATE|O_TRUNC; on success the new handle is
\* installed, the running size stored as 0 and, if w.backup > 0, a clearBackups
\* goroutine started; on failure swap returns with the closed handle and the size as
\* it is. Unlock.
SwapReopen(p) ==
  /\ fw.impl = "swap"
  /\ writers[p].pc = "reopen"
  /\ \E ok \in BOOLEAN :
       /\ MayFail(ok)
       /\ IF ok
          THEN /\ disk' = [disk EXCEPT !.primary = 0]
               /\ fw' = [fw EXCEPT !.file = "open", !.size = 0]
               /\ clear' = clear + (IF fw.backup > 0 THEN 1 ELSE 0)
          ELSE UNCHANGED <<disk, fw, clear>>
       /\ hist' = [hist EXCEPT !.faults = Faults(ok), !.rotations = @ + 1,
                     !.failed = @ + (IF ok THEN 0 ELSE 1)]
  /\ mu' = 0
  /\ writers' = [writers EXCEPT ![p].pc = "ret", ![p].rot = @ + 1]
  /\ UNCHANGED now
  /\ LogFrame

\* ------------------------------------------------------------------ the later revision: Write, open and rotate

\* Write, first part: Lock, and open() if the writer has no file (after a rotation).
\* open may fail before it changed anything (MkdirAll, Stat, Rename) or after it
\* renamed an oversized file (OpenFile, Stat of the new file); Write then returns
\* the error.
RotateWriterOpen(p, len) ==
  /\ fw.impl = "rotate"
  /\ Idlest(p)
  /\ hist.writes < MaxWrites
  /\ mu = 0
  /\ LET entry == [IdleWrite EXCEPT !.len = len]
     IN IF fw.file = "open"
        THEN /\ writers' = [writers EXCEPT ![p] = [entry EXCEPT !.pc = "write"]]
             /\ mu' = p
             /\ hist' = [hist EXCEPT !.writes = @ + 1]
             /\ UNCHANGED <<fw, disk, clear>>
        ELSE \E fail \in {"none", "early", "late"} :
               /\ MayFail(fail = "none")
               /\ LET o == Open(disk, fw.max, now)
                  IN IF fail = "none"
                     THEN /\ disk' = o.disk
                          /\ clear' = IF Cleaned(disk, o.disk) = 1 THEN Clean(clear) ELSE clear
                          /\ fw' = [fw EXCEPT !.file = "open", !.size = o.size]
                          /\ writers' = [writers EXCEPT ![p] = [entry EXCEPT !.pc = "write"]]
                          /\ mu' = p
                          /\ hist' = [hist EXCEPT !.writes = @ + 1,
                                        !.dropped = @ + (IF Cleaned(disk, o.disk) = 1
                                                         THEN Dropped(clear) ELSE 0),
                                        !.made = @ \cup DOMAIN o.disk.backups,
                                        !.episodes = @ + (IF Armed(o.size, fw.max)
                                                          THEN 1 ELSE 0)]
                     ELSE /\ disk' = IF fail = "late"
                                     THEN [o.disk EXCEPT !.primary =
                                              IF disk.primary = Absent \/ o.disk # disk
                                              THEN Absent ELSE disk.primary]
                                     ELSE disk
                          /\ clear' = IF fail = "late" /\ Cleaned(disk, o.disk) = 1
                                      THEN Clean(clear) ELSE clear
                          /\ writers' = [writers EXCEPT ![p] = [IdleWrite EXCEPT !.pc = "ret"]]
                          /\ hist' = [hist EXCEPT !.writes = @ + 1,
                                        !.dropped = @ + (IF fail = "late" /\ Cleaned(disk, o.disk) = 1
                                                         THEN Dropped(clear) ELSE 0),
                                        !.made = IF fail = "late"
                                                 THEN @ \cup DOMAIN o.disk.backups ELSE @,
                                        !.faults = Faults(FALSE)]
                          /\ UNCHANGED <<fw, mu>>
  /\ UNCHANGED now
  /\ LogFrame

\* Write, second part: n, err = w.file.Write(b), then
\* if w.max > 0 { w.size += uint32(n); if w.size >= w.max { w.rotate() } }
RotateWriterWrite(p) ==
  /\ fw.impl = "rotate"
  /\ writers[p].pc = "write"
  /\ \E ok \in BOOLEAN :
       /\ MayFail(ok)
       /\ LET n == IF ok THEN writers[p].len ELSE 0
              sum == fw.size + n
          IN /\ disk' = [disk EXCEPT !.primary = @ + n]
             /\ IF fw.max > 0
                THEN /\ fw' = [fw EXCEPT !.size = sum]
                     /\ writers' = [writers EXCEPT ![p].len = 0, ![p].sum = sum,
                                      ![p].seen = hist.rotations,
                                      ![p].pc = IF sum >= fw.max THEN "rotate" ELSE "ret"]
                     /\ mu' = IF sum >= fw.max THEN p ELSE 0
                     /\ hist' = [hist EXCEPT !.faults = Faults(ok),
                                   !.episodes =
                                     @ + (IF ~Armed(fw.size, fw.max) /\ Armed(sum, fw.max)
                                          THEN 1 ELSE 0)]
                ELSE /\ writers' = [writers EXCEPT ![p].len = 0, ![p].pc = "ret"]
                     /\ mu' = 0
                     /\ hist' = [hist EXCEPT !.faults = Faults(ok)]
                     /\ UNCHANGED fw
  /\ UNCHANGED <<now, clear>>
  /\ LogFrame

\* rotate: Sync, Close, w.file, w.size = nil, 0, Rename to the stamped backup name (a
\* failure is reported), clean(); the file is not reopened. Write returns and unlocks.
Rotate(p) ==
  /\ fw.impl = "rotate"
  /\ writers[p].pc = "rotate"
  /\ \E ok \in BOOLEAN :
       /\ MayFail(ok)
       /\ LET name == NewBackupFileName(now)
          IN /\ disk' = IF ok THEN Rename(disk, name) ELSE disk
             /\ hist' = [hist EXCEPT !.faults = Faults(ok), !.rotations = @ + 1,
                           !.last = [name |-> name, renamed |-> ok],
                           !.made = IF ok THEN @ \cup {name} ELSE @,
                           !.dropped = @ + Dropped(clear)]
  /\ fw' = [fw EXCEPT !.file = "nil", !.size = 0]
  /\ clear' = Clean(clear)
  /\ mu' = 0
  /\ writers' = [writers EXCEPT ![p].pc = "ret", ![p].rot = @ + 1]
  /\ UNCHANGED now
  /\ LogFrame

\* ------------------------------------------------------------------ Close

\* What one Close call did and returned: whether it called Sync and Close on the
\* file, and whether it returned an error.
Closed(sync, close, err) == [sync |-> sync, close |-> close, err |-> err]

\* Close of file_writer.go: RLock, then w.fd.Close() starts. On a writer already
\* closed, fd.Close() returns os.ErrClosed at once and nothing changes.
SwapWriterClose ==
  /\ fw.impl = "swap"
  /\ mu = 0
  /\ fw.file \in {"open", "closed"}
  /\ Len(hist.closes) < MaxCloses
  /\ IF fw.file = "open"
     THEN /\ fw' = [fw EXCEPT !.file = "closing"]
          /\ UNCHANGED hist
     ELSE /\ hist' = [hist EXCEPT !.closes = Append(@, Closed(FALSE, TRUE, TRUE))]
          /\ UNCHANGED fw
  /\ UNCHANGED <<disk, now, writers, mu, clear>>
  /\ LogFrame

\* fd.Close has returned: RUnlock; the writer keeps the pointer to the closed file.
SwapWriterClosed ==
  /\ fw.impl = "swap"
  /\ fw.file = "closing"
  /\ fw' = [fw EXCEPT !.file = "closed"]
  /\ hist' = [hist EXCEPT !.closes = Append(@, Closed(FALSE, TRUE, FALSE))]
  /\ UNCHANGED <<disk, now, writers, mu, clear>>
  /\ LogFrame

\* A Close of the later revision without the test w.file != nil.
RotateWriterCloseAlways ==
  /\ fw.impl = "rotate"
  /\ mu = 0
  /\ fw.file \in {"open", "nil"}
  /\ Len(hist.closes) < MaxCloses
  /\ fw' = [fw EXCEPT !.file = "nil", !.size = 0]
  /\ hist' = [hist EXCEPT !.closes = Append(@, Closed(TRUE, TRUE, fw.file = "nil"))]
  /\ UNCHANGED <<disk, now, writers, mu, clear>>
  /\ LogFrame

\* Close of the later revision, under the mutex: if w.file != nil, Sync, Close and
\* w.file, w.size = nil, 0; otherwise nothing, and nil is returned.
RotateWriterClose ==
  /\ fw.impl = "rotate"
  /\ mu = 0
  /\ fw.file \in {"open", "nil"}
  /\ Len(hist.closes) < MaxCloses
  /\ IF fw.file = "open"
     THEN /\ fw' = [fw EXCEPT !.file = "nil", !.size = 0]
          /\ hist' = [hist EXCEPT !.closes = Append(@, Closed(TRUE, TRUE, FALSE))]
     ELSE /\ hist' = [hist EXCEPT !.closes = Append(@, Closed(FALSE, FALSE, FALSE))]
          /\ UNCHANGED fw
  /\ UNCHANGED <<disk, now, writers, mu, clear>>
  /\ LogFrame

\* ------------------------------------------------------------------ pruning the backups

\* The stamp in a backup name of either revision.
StampOf(name) == name[3]

\* A pruning pass that cuts the sorted names from the wrong end: files[keep:].
ExcessFromTheEnd(names, keep) ==
  {f \in names : Cardinality({g \in names : StampOf(g) < StampOf(f)}) >= keep}

\* The names sorted (sort.Strings, os.ReadDir), what lies before the last keep of
\* them: files[:n-keep], and nothing unless n > keep.
Excess(names, keep) ==
  {f \in names : Cardinality({g \in names : StampOf(g) > StampOf(f)}) >= keep}

\* os.Remove of each of the names.
RemoveFiles(files, names) == [f \in DOMAIN files \ names |-> files[f]]

\* The name of the log file in its directory.
PrimaryName == <<"app.log">>

\* The suffix "1" of app.log.1 or app-1.log, a file some other tool left in the
\* directory: it is no time stamp, and as a string it sorts before every time stamp.
ForeignSuffix == -1

\* time.Parse(backupTimeFormat, target) succeeds.
IsTimeStamp(suffix) == suffix >= 0

\* os.ReadDir(dir), filepath.Glob: the names of the files in the directory.
ReadDir(d) == DOMAIN d.backups \cup (IF d.primary = Absent THEN {} ELSE {PrimaryName})

\* filepath.Glob(w.name + ".*"): the names made of the path, a dot and anything.
Glob(names) == {f \in names : Len(f) = 3 /\ f[1] = "app.log" /\ f[2] = "."}

\* isBackupFileName: not the log file itself; name-, a time stamp, the extension.
IsBackupFileName(target) ==
  /\ target # PrimaryName
  /\ Len(target) = 4
  /\ target[1] = "app" /\ target[2] = "-"
  /\ target[4] = ".log"
  /\ IsTimeStamp(target[3])

\* The files a pruning pass of the revision counts as backups.
Matches(impl, names) ==
  IF impl = "swap" THEN Glob(names) ELSE {f \in names : IsBackupFileName(f)}

\* The directory without the named files.
Remove(d, names) ==
  [primary |-> IF PrimaryName \in names THEN Absent ELSE d.primary,
   backups |-> RemoveFiles(d.backups, names)]

\* One pruning pass over the directory; listing it or removing from it may fail.
Prune ==
  \E ok \in BOOLEAN :
    /\ MayFail(ok)
    /\ ~ok => Excess(Matches(fw.impl, ReadDir(disk)), fw.backup) # {}
    /\ disk' = IF ok
               THEN Remove(disk, Excess(Matches(fw.impl, ReadDir(disk)), fw.backup))
               ELSE disk
    /\ hist' = [hist EXCEPT !.faults = Faults(ok)]

\* clearBackups of file_writer.go: one goroutine per swap, started only if w.backup > 0.
ClearBackups ==
  /\ fw.impl = "swap"
  /\ clear > 0
  /\ clear' = clear - 1
  /\ Prune
  /\ UNCHANGED <<fw, now, writers, mu>>
  /\ LogFrame

\* sweeper of the later revision: the one goroutine takes the token from w.clear,
\* lists the directory and removes files[:n-w.backup] when n > w.backup.
Sweeper ==
  /\ fw.impl = "rotate"
  /\ clear > 0
  /\ clear' = 0
  /\ Prune
  /\ UNCHANGED <<fw, now, writers, mu>>
  /\ LogFrame

FwNext ==
  \/ Tick
  \/ \E p \in Writers, len \in WriteLens : SwapWriterWrite(p, len)
  \/ \E p \in Writers : SwapWriterAdd(p)
  \/ \E p \in Writers : Swap(p)
  \/ \E p \in Writers : SwapReopen(p)
  \/ \E p \in Writers, len \in WriteLens : RotateWriterOpen(p, len)
  \/ \E p \in Writers : RotateWriterWrite(p)
  \/ \E p \in Writers : Rotate(p)
  \/ \E p \in Writers : WriterReturn(p)

\* ------------------------------------------------------------------ the specifications

SetLevelInputs == {0, FatalLevel, TraceLevel, 8}
CallLevels == {0, PanicLevel, FatalLevel, InfoLevel, 8}

LogNext ==
  \/ \E level \in SetLevelInputs : SetLevel(level)
  \/ \E f \in BOOLEAN : SetOutputInterceptor(f)
  \/ \E f \in {Nil, "exit", "return"} : SetExitFunc(f)
  \/ \E f \in {Nil, "panic", "return"} : SetPanicFunc(f)
  \/ \E fo \in BOOLEAN : SetFormatOutput(fo)
  \/ \E ok \in BOOLEAN : EnableHook(ok)
  \/ \E levels \in HookLevelLists : AddHook(levels)
  \/ \E o \in handles : WithMessagePrefix(o, "p:")
  \/ \E o \in handles : WithField(o, "k", 1)
  \/ \E o \in handles : WithContext(o, "ctx")
  \/ \E o \in handles : WithCaller(o, 1)
  \/ \E o \in handles : WithStack(o)
  \/ \E o \in handles, level \in CallLevels : Log(o, level, "m")
  \/ Format
  \/ Hooks
  \/ Write
  \/ Terminal
  \/ PutEntity
  \/ Return

vars == <<logVars, fwVars>>

\* The record pipeline of one logger; no file writer.
Init == LogInit /\ FwOff /\ wr = NoWrapper /\ js = NoFormatter

Next == LogNext

Spec == Init /\ [][Next]_vars

\* The outputs of one logger: the default writer, a level writer, a format output,
\* an interceptor, and the records logged through the root handle.
OutputLevels == {InfoLevel, ErrorLevel}

OutputNext ==
  \/ \E w \in {Nil, "w1"} : SetOutput(w)
  \/ \E w \in {Nil, "w2"} : SetLevelOutput(InfoLevel, w)
  \/ \E f \in BOOLEAN : SetOutputInterceptor(f)
  \/ \E fo \in BOOLEAN : SetFormatOutput(fo)
  \/ \E level \in OutputLevels : Log(RootHandle, level, "m")
  \/ Format
  \/ Hooks
  \/ Write
  \/ Terminal
  \/ PutEntity
  \/ Return

OutputSpec == Init /\ [][OutputNext]_vars

\* The handle root.WithField("j", 0).
FieldHandle ==
  [RootHandle EXCEPT !.fields = {<<"j", 0>>}, !.map = 1, !.by = <<{}, "j", 0>>]

FieldValues == {1, 2}

\* A logger whose root handle has produced one child with a field: the handles
\* made from them by the With* calls, and the records logged through them.
HandleInit ==
  /\ core = NewCore
  /\ nsetup = 0
  /\ nhooks = 0
  /\ handles = {RootHandle, FieldHandle}
  /\ pool = {}
  /\ pc = "idle"
  /\ call = NoCall
  /\ entity = NewEntity
  /\ selw = Nil
  /\ trace = <<>>
  /\ alive = TRUE
  /\ FwOff
  /\ wr = NoWrapper /\ js = NoFormatter

HandleNext ==
  \/ \E o \in handles : WithMessagePrefix(o, "p:")
  \/ \E o \in handles, value \in FieldValues : WithField(o, "k", value)
  \/ \E o \in handles : WithContext(o, "ctx")
  \/ \E o \in handles : WithCaller(o, 1)
  \/ \E o \in handles : WithStack(o)
  \/ \E o \in handles : Log(o, InfoLevel, "m")
  \/ Format
  \/ Hooks
  \/ Write
  \/ Terminal
  \/ PutEntity
  \/ Return

HandleSpec == HandleInit /\ [][HandleNext]_vars

\* A file writer of either revision, written to by concurrent goroutines; no logger.
FileInit == FwInit /\ LogInit /\ wr = NoWrapper /\ js = NoFormatter

FileNext == FwNext

FileSpec == FileInit /\ [][FileNext]_vars

\* A file writer of either revision with a size limit, written to by one goroutine
\* (as a logger behind a mutex writer does), its pruning goroutines running, on a
\* file system that does not fail; the scheduler lets every started goroutine run.
PruneInit ==
  /\ \E impl \in Impls, max \in FileMaxes \ {0}, backup \in FileBackups, pre \in FileSizes :
       LET new == NewFileWriter(impl, max, backup, pre, 0)
       IN /\ fw = new.fw
          /\ disk = new.disk
          /\ clear = Cleaned([primary |-> pre, backups |-> <<>>], new.disk)
          /\ hist = [NewHist(Armed(new.fw.size, max), DOMAIN new.disk.backups)
                       EXCEPT !.faults = MaxFaults]
  /\ now = 0
  /\ writers = [p \in Writers |-> IF p = 1 THEN IdleWrite ELSE NoWriter]
  /\ mu = 0
  /\ LogInit
  /\ wr = NoWrapper /\ js = NoFormatter

\* A file writer of either revision on a file system that does not fail, with a
\* goroutine that calls Close while others write.
CloseInit ==
  /\ \E impl \in Impls, max \in FileMaxes, pre \in FileSizes :
       LET new == NewFileWriter(impl, max, 0, pre, 0)
       IN /\ fw = new.fw
          /\ disk = new.disk
          /\ clear = Cleaned([primary |-> pre, backups |-> <<>>], new.disk)
          /\ hist = [NewHist(Armed(new.fw.size, max), DOMAIN new.disk.backups)
                       EXCEPT !.faults = MaxFaults]
  /\ now = 0
  /\ writers = [p \in Writers |-> IdleWrite]
  /\ mu = 0
  /\ LogInit
  /\ wr = NoWrapper /\ js = NoFormatter

CloseNext ==
  \/ SwapWriterClose
  \/ SwapWriterClosed
  \/ RotateWriterClose
  \/ FwNext

CloseSpec == CloseInit /\ [][CloseNext]_vars

PruneNext ==
  \/ ClearBackups
  \/ Sweeper
  \/ FwNext

PruneSpec ==
  PruneInit /\ [][PruneNext]_vars /\ WF_vars(ClearBackups) /\ WF_vars(Sweeper)

\* The files other tools left in the directory: app.log.1, app-1.log, other.log.
ForeignFiles == {SwapBackupName(ForeignSuffix), NewBackupFileName(ForeignSuffix), <<"other.log">>}

\* The writer of PruneInit with a retention limit, in a directory that holds files
\* of other tools as well.
DirInit ==
  /\ \E impl \in Impls, max \in FileMaxes \ {0}, pre \in FileSizes,
        others \in SUBSET ForeignFiles :
       LET new == NewFileWriter(impl, max, 1, pre, 0)
       IN /\ fw = new.fw
          /\ disk = [new.disk EXCEPT !.backups =
                       [f \in DOMAIN @ \cup others |-> IF f \in others THEN 1 ELSE @[f]]]
          /\ clear = Cleaned([primary |-> pre, backups |-> <<>>], new.disk)
          /\ hist = [NewHist(Armed(new.fw.size, max), DOMAIN new.disk.backups)
                       EXCEPT !.faults = MaxFaults]
  /\ now = 0
  /\ writers = [p \in Writers |-> IF p = 1 THEN IdleWrite ELSE NoWriter]
  /\ mu = 0
  /\ LogInit
  /\ wr = NoWrapper /\ js = NoFormatter

DirSpec == DirInit /\ [][PruneNext]_vars

\* ------------------------------------------------------------------ properties of the pipeline

\* The positions of the trace that hold an event of one of the given kinds.
At(kinds) == {i \in DOMAIN trace : trace[i].ev \in kinds}

Count(kinds) == Cardinality(At(kinds))

FormatFailed == \E i \in At({"format"}) : trace[i].arg = "err"

HookFailed == \E i \in At({"hook"}) : trace[i].arg = "err"

\* The call has left log.record: it returned or its panic left the function.
CallOver == pc \in {"done", "panicked"}

\* C1: a logging call at a level that is not enabled under the threshold (an invalid
\* level, or one less severe than the threshold) returns at once and changes nothing:
\* the pool, the entity, the diagnostic sink, hooks, writers and terminal functions
\* (everything the trace records) are untouched and the process stays alive.
C1_DisabledCallHasNoEffect ==
  [][(pc = "idle" /\ pc' # "idle" /\ ~(IsValid(call'.level) /\ call'.level <= core.level))
       => (pc' = "done" /\ UNCHANGED <<core, pool, entity, selw, trace, alive>>)]_vars

C1_Witness ==
  /\ pc = "done"
  /\ call.level = InfoLevel
  /\ core.level = FatalLevel
  /\ trace = <<>>
  /\ pool # {}

\* C2: when formatting fails, no hook is fired, no writer or interceptor is invoked,
\* and the diagnostic sink receives the formatting error and nothing else.
C2_FormatFailureSkipsHooksAndWrite ==
  FormatFailed =>
    /\ At({"hook", "write", "intercept"}) = {}
    /\ Count({"echo"}) = 1
    /\ \A i \in At({"echo"}) : trace[i].arg = "format"

C2_Witness ==
  /\ CallOver
  /\ FormatFailed
  /\ core.enableHooks
  /\ core.hooks[call.level] # <<>>
  /\ core.interceptor

\* C3: when a hook fails, the record is still handed to the writer (or interceptor)
\* exactly once, with exactly the bytes the formatter produced, and the hook error is
\* reported; an empty record without interceptor is written in neither case.
C3_HookErrorDoesNotPreventWrite ==
  (HookFailed /\ pc \notin {"hooks", "write"}) =>
    \A f \in At({"format"}) :
      /\ Count({"echo"}) >= 1
      /\ \A i \in At({"echo"}) : trace[i].arg \in {"hook", "write"}
      /\ IF core.interceptor \/ trace[f].n > 0
         THEN /\ Count({"write", "intercept"}) = 1
              /\ \A i \in At({"write", "intercept"}) :
                   /\ trace[i].data = trace[f].data
                   /\ trace[i].n = trace[f].n
                   /\ \A h \in At({"hook"}) : h < i
         ELSE Count({"write", "intercept"}) = 0

C3_Witness ==
  /\ CallOver
  /\ HookFailed
  /\ Count({"write"}) = 1
  /\ \A i \in At({"echo"}) : trace[i].arg = "hook"

\* C4: the phases of a record come in the order format, hooks, write: a hook fires
\* only after the record's successful formatting and before the record reaches a
\* writer or interceptor, which it reaches only after that formatting too.
C4_FormatThenHooksThenWrite ==
  /\ \A h \in At({"hook"}) :
       /\ \E f \in At({"format"}) : f < h /\ trace[f].arg = "ok"
       /\ \A i \in At({"write", "intercept"}) : h < i
  /\ \A i \in At({"write", "intercept"}) :
       \E f \in At({"format"}) : f < i /\ trace[f].arg = "ok"
  /\ Count({"format"}) <= 1

C4_Witness ==
  /\ CallOver
  /\ Count({"format"}) = 1
  /\ Count({"hook"}) = 1
  /\ Count({"intercept"}) = 1

C6_ReleasedExactlyOnce ==
  /\ Count({"get"}) <= 1
  /\ Count({"put"}) <= Count({"get"})
  /\ CallOver => Count({"put"}) = Count({"get"})
  /\ \A r \in At({"put"}) : r = Len(trace)

C6_Witness ==
  /\ CallOver
  /\ Count({"get"}) = 1
  /\ Count({"put"}) = 1
  /\ \E i \in At({"echo"}) : trace[i].arg = "write"
  /\ pool # {}

\* C7: once the logging of an enabled record is over (formatted, hooked and written,
\* or failed), a Fatal record has invoked the exit function exactly once and no
\* panic function, a Panic record the panic function exactly once and no exit
\* function, any other record neither; and nothing is formatted, hooked, written or
\* reported after the terminal function was invoked.
C7_TerminalFunctionOncePerCall ==
  /\ (trace # <<>> /\ pc \in {"defer", "unwind", "exited", "done", "panicked"}) =>
       /\ Count({"exit"}) = (IF call.level = FatalLevel THEN 1 ELSE 0)
       /\ Count({"panic"}) = (IF call.level = PanicLevel THEN 1 ELSE 0)
  /\ pc \in {"format", "hooks", "write", "terminal"} => Count({"exit", "panic"}) = 0
  /\ trace = <<>> => pc \in {"idle", "done"}
  /\ \A t \in At({"exit", "panic"}) :
       /\ Count({"format"}) = 1
       /\ \A i \in At({"format", "hook", "write", "intercept", "echo"}) : i < t

C7_Witness ==
  /\ pc = "done"
  /\ call.level = FatalLevel
  /\ Count({"exit"}) = 1
  /\ FormatFailed

\* C8: every record at rest in the pool is scrubbed (name, message, fields, context,
\* caller, stack and time format cleared, buffer empty and of capacity at most 4096),
\* and the record a call works on carries only that call's data: its stamped fields
\* come from the call, it has a stack only if the handle asked for one, and its
\* buffer holds nothing but the rendering of this record.
C8_PooledRecordsAreScrubbed ==
  /\ \A o \in pool :
       /\ o.name = "" /\ o.message = "" /\ o.timeFormat = ""
       /\ o.fields = {} /\ o.ctx = Nil /\ o.caller = <<>> /\ o.stack = <<>>
       /\ o.buf = <<>> /\ o.len = 0
       /\ o.cap <= PooledBufferCap
  /\ pc \in {"format", "hooks", "write", "terminal", "defer", "unwind", "exited"} =>
       /\ entity.name = core.name
       /\ entity.level = call.level
       /\ entity.message = call.h.prefix \o call.message
       /\ entity.fields = call.h.fields
       /\ entity.ctx = call.h.ctx
       /\ (entity.stack # <<>>) => call.h.stack
       /\ entity.buf \in {<<>>, Render(entity)}
       /\ pc = "format" => (entity.buf = <<>> /\ entity.len = 0 /\ entity.stack = <<>>)

C8_Witness ==
  /\ pc = "format"
  /\ entity.cap = SmallBufferSize
  /\ ~call.h.stack
  /\ call.h.fields = {}
  /\ pool = {}

\* ------------------------------------------------------------------ properties of the file writers

\* The goroutines whose Write is over and has not yet returned to its caller.
Returned == {p \in Writers : writers[p].pc = "ret"}

\* The Write of p appended bytes and computed a running size at or above max.
Crossed(p) == writers[p].sum # Absent /\ Armed(writers[p].sum, fw.max)

\* C9: with max > 0, a Write that appended N bytes and brought the running size to
\* max or above triggers exactly one rotation: by the time it returns a rotation has
\* been carried out since it added its bytes, it carried out at most one itself (in
\* the rotate revision exactly one), and over the whole run there is one rotation per
\* crossing of the threshold (a crossing not yet rotated away, or a swap whose reopen
\* failed and is owed again, accounts for the difference), so that writers crossing
\* together share one rotation. A Write that leaves the running size below max, that
\* appended nothing, or that runs with max = 0 triggers none.
C9_OneRotationPerCrossing ==
  /\ \A p \in Returned :
       /\ writers[p].rot <= 1
       /\ IF Crossed(p)
          THEN /\ hist.rotations > writers[p].seen
               /\ fw.impl = "rotate" => writers[p].rot = 1
          ELSE writers[p].rot = 0
  /\ \A p \in Writers : writers[p].rot >= 1 => Crossed(p)
  /\ fw.max = 0 => hist.rotations = 0
  /\ hist.rotations + (IF Armed(fw.size, fw.max) THEN 1 ELSE 0)
       = hist.episodes + hist.failed

C9_Witness ==
  /\ fw.impl = "swap"
  /\ hist.faults = 0
  /\ hist.rotations = 1
  /\ \E p, q \in Returned :
       /\ p # q
       /\ Crossed(p) /\ Crossed(q)
       /\ writers[p].rot = 1
       /\ writers[q].rot = 0

\* The steps in which swap renames, swap ends (after its reopen) and rotate ends.
SwapRenamed(p) == fw.impl = "swap" /\ writers[p].pc = "swap" /\ writers'[p].pc = "reopen"

SwapDone(p) == fw.impl = "swap" /\ writers[p].pc = "reopen" /\ writers'[p].pc = "ret"

RotateDone(p) == fw.impl = "rotate" /\ writers[p].pc = "rotate" /\ writers'[p].pc = "ret"

\* The backup of the last rotation exists.
BackupExists == hist'.last.name \in DOMAIN disk'.backups

\* The rename of this step made the backup of the rotation out of the primary file.
BackupMade == BackupExists /\ disk'.backups[hist'.last.name] = disk.primary

Stopped ==
  hist.writes = MaxWrites /\ \A p \in Writers : writers[p].pc \in {"idle", "off"}

\* The keep most recent of the names, by their stamps.
Newest(names, keep) ==
  {f \in names : Cardinality({g \in names : StampOf(g) > StampOf(f)}) < keep}

Kept == DOMAIN disk.backups

\* C11: a file writer with retention M > 0 on a file system that does not fail:
\* once its rotations have produced more than M backup files and have stopped, the
\* pruning goroutine eventually leaves exactly M backup files, the M most recent by
\* their stamps.
C11_PrunedToRetention ==
  (fw.backup > 0 /\ Stopped /\ Cardinality(hist.made) > fw.backup)
    ~> (Cardinality(Kept) = fw.backup /\ Kept = Newest(hist.made, fw.backup))

\* Two backups were made under retention 1, the writes are over and the older
\* backup is gone.
C11_Witness ==
  /\ fw.backup > 0
  /\ Stopped
  /\ clear = 0
  /\ Cardinality(hist.made) > fw.backup
  /\ Cardinality(Kept) = fw.backup
  /\ Kept = Newest(hist.made, fw.backup)
  /\ hist.rotations > 0

\* C12: a file writer with max-backup-count 0 never deletes a backup file: every
\* backup file present before a step is present after it.
C12_ZeroBackupKeepsAll ==
  [][fw.backup = 0 => Kept \subseteq DOMAIN disk'.backups]_vars

\* ------------------------------------------------------------------ the file handle

\* Goroutine p's call of Write on the file handle (fd.Write, w.file.Write) is made
\* in this step.
FdWrite(p) ==
  \/ fw.impl = "swap" /\ writers[p].pc = "idle" /\ writers'[p].pc = "add"
  \/ fw.impl = "rotate" /\ writers[p].pc = "write" /\ writers'[p].pc # "write"

\* C13: under concurrent Write, rotation and Close calls a write never operates on
\* a closed or half-closed file handle: the handle it writes to is open, neither
\* closed by a rotation or a Close nor being closed by one at that moment.
C13_WritesSeeOpenHandle ==
  [][\A p \in Writers : FdWrite(p) => fw.file = "open"]_vars

\* ------------------------------------------------------------------ construction

\* NewFileWriter has returned and Write has not been called.
Fresh == hist.writes = 0

\* The writer was opened on the file it found (or created), for append.
OpenedForAppend ==
  /\ disk.backups = <<>>
  /\ disk.primary # Absent
  /\ disk.primary <= fw.max
  /\ fw.size = disk.primary

\* The file found was renamed to a stamped backup and a new primary file created.
OpenedFresh ==
  /\ DOMAIN disk.backups = {NewBackupFileName(0)}
  /\ disk.backups[NewBackupFileName(0)] > fw.max
  /\ disk.primary = 0
  /\ fw.size = 0

\* C14: construction of the file writer (open() of the later revision) with
\* max > 0: a file found at the path that exceeds max has been renamed to a
\* time-stamped backup and the writer starts on a new, empty primary file; any
\* other file has been opened for append with the running size set to its size.
C14_ConstructionOnExistingFile ==
  (fw.impl = "rotate" /\ fw.max > 0 /\ Fresh) =>
    (fw.file = "open" /\ (OpenedForAppend \/ OpenedFresh))

\* Constructed on an oversized file: the backup holds it, the primary is new.
C14_Witness ==
  fw.impl = "rotate" /\ fw.max > 0 /\ Fresh /\ OpenedFresh /\ clear = 1

\* ------------------------------------------------------------------ backup names

\* A rotation renames the primary file in this step (swap, rotate).
RotationRenames == disk.primary # Absent /\ disk'.primary = Absent

\* C15: any two rotations of a writer produce distinct backup file names, so that
\* no rotation overwrites an earlier backup: the name a rotation renames the
\* primary file to has not been the name of a backup before.
C15_BackupNamesDistinct ==
  [][RotationRenames => hist'.last.name \notin hist.made]_vars

\* ------------------------------------------------------------------ handles

\* The fields the handle was made with: those of the handle WithField was called
\* on, and the one key set.
Own(h) == IF h.by = <<>> THEN {} ELSE SetField(h.by[1], h.by[2], h.by[3])

\* A record is in the hands of log.record.
InRecord == pc \in {"format", "hooks", "write", "terminal"}

\* C16: handles made by parent.WithField(k, v1) and parent.WithField(k, v2) are
\* independent: each handle holds, and each record emitted through it carries,
\* exactly the parent's fields and its own value for k, never the value given to
\* another handle; the parent holds neither value.
C16_SiblingsAreIndependent ==
  /\ \A h \in handles : h.fields = Own(h)
  /\ InRecord => entity.fields = Own(call.h)

\* FieldHandle has the children WithField("k", 1) and WithField("k", 2), it has no
\* k itself, and a record is being written through the first child with k = 1.
C16_Witness ==
  /\ FieldHandle \in handles
  /\ \E a, b \in handles :
       /\ a.by = <<FieldHandle.fields, "k", 1>>
       /\ b.by = <<FieldHandle.fields, "k", 2>>
       /\ call.h = a
  /\ pc = "write"
  /\ entity.fields = {<<"j", 0>>, <<"k", 1>>}

\* The record log.record works on was made from the handle of the call.
CarriesHandle ==
  /\ call.h \in handles
  /\ entity.fields = call.h.fields
  /\ entity.ctx = call.h.ctx
  /\ entity.message = call.h.prefix \o call.message
  /\ entity.caller = LogGetCaller(call.h, call.level)
  /\ pc # "format" => (entity.stack # <<>>) = call.h.stack

\* C17: a With* call leaves every handle there is as it was, and what it returns
\* is another handle; a record emitted through a handle carries exactly that
\* handle's fields, context, caller override, message prefix and stack flag.
C17_WithLeavesOriginal ==
  [][handles \subseteq handles' /\ (InRecord' => CarriesHandle')]_vars

\* FieldHandle has produced a handle that shares its field map (by WithMessagePrefix,
\* WithContext, WithCaller or WithStack) and one with a field more, and a record
\* goes out through FieldHandle as it was.
C17_Witness ==
  /\ \E c, d \in handles :
       /\ c # FieldHandle /\ c.map = FieldHandle.map
       /\ d.by = <<FieldHandle.fields, "k", 1>>
  /\ call.h = FieldHandle
  /\ pc = "write"
  /\ entity.fields = {<<"j", 0>>}
  /\ entity.message = "m"
  /\ entity.ctx = Nil
  /\ entity.caller = <<>>
  /\ entity.stack = <<>>

\* ------------------------------------------------------------------ outputs

\* log.write has returned for a record that was formatted without error.
Written == pc = "terminal" /\ ~FormatFailed

\* The level writer of the call's level if there is one, else the default writer.
LevelOrDefault ==
  IF core.levelWriter[call.level] # Nil THEN core.levelWriter[call.level] ELSE core.writer

\* The writers bound to the logger: its output and its level outputs.
BoundWriters == {core.writer} \cup {core.levelWriter[l] : l \in Levels}

\* C18 as stated: with no interceptor set, every successfully formatted record is
\* written to exactly one writer, the level writer of its level if there is one,
\* otherwise the default writer.
C18_WrittenToLevelOrDefault ==
  (Written /\ ~core.interceptor) =>
    /\ Count({"write"}) = 1
    /\ \A i \in At({"write"}) : trace[i].arg = LevelOrDefault

\* C18, amended: with no interceptor set, a successfully formatted record whose
\* output is not empty is written exactly once, to the writer the format output
\* returned for it if it returned one, otherwise to the level writer of its level
\* if there is one, otherwise to the default writer; a record formatted to nothing
\* is not written.
C18_WrittenToOneWriter ==
  (Written /\ ~core.interceptor) =>
    /\ Count({"intercept"}) = 0
    /\ IF entity.len = 0
       THEN Count({"write"}) = 0
       ELSE /\ Count({"write"}) = 1
            /\ \A i \in At({"write"}) :
                 /\ trace[i].arg = IF selw # Nil THEN selw ELSE LevelOrDefault
                 /\ trace[i].n = entity.len

\* An Info record went to the level writer of Info, not to the default writer set
\* with SetOutput.
C18_Witness ==
  /\ Written
  /\ ~core.interceptor
  /\ core.writer = "w1"
  /\ core.levelWriter[InfoLevel] = "w2"
  /\ call.level = InfoLevel
  /\ \E i \in At({"write"}) : trace[i].arg = "w2"

\* C19: once an output interceptor is set, the logger hands each formatted record
\* to the interceptor once and never writes it itself to the default or a level
\* writer, even when the interceptor returns an error.
C19_InterceptorReplacesWriting ==
  core.interceptor =>
    /\ Count({"write"}) = 0
    /\ Written => Count({"intercept"}) = 1

\* The interceptor returned an error, which was reported, and nothing was written.
C19_Witness ==
  /\ core.interceptor
  /\ Written
  /\ Count({"intercept"}) = 1
  /\ Count({"write"}) = 0
  /\ \E i \in At({"echo"}) : trace[i].arg = "write"

NilWriterCase ==
  Written /\ core.formatOutput /\ selw = Nil /\ ~core.interceptor /\ entity.len > 0

WriteFailed == \E i \in At({"echo"}) : trace[i].arg = "write"

\* The call ended otherwise than by returning to its caller.
Escaped == pc \in {"unwind", "panicked", "exited"}

HookLists == HookLevelLists \cup {<<InfoLevel, InfoLevel>>}

\* One logger, the hooks added to it, and the records logged through its root handle.
HookNext ==
  \/ \E ok \in BOOLEAN : EnableHook(ok)
  \/ \E levels \in HookLists : AddHook(levels)
  \/ \E level \in OutputLevels : Log(RootHandle, level, "m")
  \/ Format
  \/ Hooks
  \/ Write
  \/ Terminal
  \/ PutEntity
  \/ Return

HookSpec == Init /\ [][HookNext]_vars

\* The hooks fired for the record of the call, in the order they were fired.
Fired == SelectSeq(trace, LAMBDA e : e.ev = "hook")

\* The hooks stored under the level of the record.
Registered == core.hooks[call.level]

\* C23: firing the hook registry for a record invokes the hooks registered for
\* the record's level in registration order: the hooks fired are a prefix of the
\* registered ones; only the last hook fired can have failed, so no hook registered
\* after a failing one is invoked; the error is returned to log.record, which
\* reports it once; when none failed all registered hooks were fired.
C23_FiredInOrderUntilError ==
  /\ Len(Fired) <= Len(Registered)
  /\ \A i \in 1..Len(Fired) :
       /\ Fired[i].n = Registered[i]
       /\ Fired[i].arg = "err" => i = Len(Fired)
  /\ pc \in {"write", "terminal"} =>
       /\ Cardinality({i \in At({"echo"}) : trace[i].arg = "hook"}) =
            (IF HookFailed THEN 1 ELSE 0)
       /\ (core.enableHooks /\ ~FormatFailed /\ ~HookFailed) => Len(Fired) = Len(Registered)

\* Two hooks are registered for Info, the first failed, the second was not invoked.
C23_Witness ==
  /\ pc = "done"
  /\ call.level = InfoLevel
  /\ Registered = <<1, 2>>
  /\ Len(Fired) = 1
  /\ Fired[1].n = 1
  /\ Fired[1].arg = "err"

\* How many times a level list names a level.
Times(levels, l) == Cardinality({i \in DOMAIN levels : levels[i] = l})

\* C24: adding a hook stores it only under the valid levels it declares: in every
\* reachable registry nothing is stored under an invalid level, every stored hook is
\* one that was added, and adding a hook with any level list appends it under the
\* valid levels of the list (once per mention) and changes nothing else, so a hook
\* with no valid level is not stored; a hook that is fired is a stored one.
C24_StoredUnderValidLevelsOnly ==
  /\ \A l \in Levels : ~IsValid(l) => core.hooks[l] = <<>>
  /\ \A l \in Levels : \A i \in DOMAIN core.hooks[l] : core.hooks[l][i] \in 1..nhooks
  /\ \A levels \in HookLists :
       LET added == HookBagAdd(core.hooks, nhooks + 1, levels)
       IN /\ DOMAIN added = Levels
          /\ \A l \in Levels :
               added[l] = core.hooks[l] \o
                 [i \in 1..(IF IsValid(l) THEN Times(levels, l) ELSE 0) |-> nhooks + 1]
  /\ \A i \in At({"hook"}) : \E j \in DOMAIN Registered : trace[i].n = Registered[j]

\* Two hooks were added: one with the levels Panic, Fatal and an invalid one, which
\* is stored under Panic and Fatal; the other with no valid level, stored nowhere.
C24_Witness ==
  /\ nhooks = 2
  /\ \E h \in 1..2 :
       \A l \in Levels :
         core.hooks[l] = IF l \in {PanicLevel, FatalLevel} THEN <<h>> ELSE <<>>

\* The record of the call went through the hook phase and no hook failed.
HooksRan == pc = "write" /\ core.enableHooks /\ ~HookFailed

\* C25: for a record that went through the hook phase without a failing hook,
\* each hook added for the record's level was fired exactly once and the hooks
\* not registered for that level were not fired.
C25_EachHookFiredOnce ==
  HooksRan =>
    \A h \in 1..nhooks :
      Cardinality({i \in At({"hook"}) : trace[i].n = h}) =
        (IF \E j \in DOMAIN Registered : Registered[j] = h THEN 1 ELSE 0)

\* ------------------------------------------------------------------ closing twice

\* A file writer of either revision on a file system that does not fail, with one
\* goroutine that writes and one that calls Close, more than once.
ShutdownInit ==
  /\ \E impl \in Impls, max \in FileMaxes, pre \in FileSizes :
       LET new == NewFileWriter(impl, max, 0, pre, 0)
       IN /\ fw = new.fw
          /\ disk = new.disk
          /\ clear = Cleaned([primary |-> pre, backups |-> <<>>], new.disk)
          /\ hist = [NewHist(Armed(new.fw.size, max), DOMAIN new.disk.backups)
                       EXCEPT !.faults = MaxFaults]
  /\ now = 0
  /\ writers = [p \in Writers |-> IF p = 1 THEN IdleWrite ELSE NoWriter]
  /\ mu = 0
  /\ LogInit
  /\ wr = NoWrapper /\ js = NoFormatter

ShutdownSpec == ShutdownInit /\ [][CloseNext]_vars

\* A Close call returns in this step.
CloseReturns == Len(hist'.closes) = Len(hist.closes) + 1

\* What the Close call that returns in this step did.
CloseResult == hist'.closes[Len(hist'.closes)]

\* The writer holds an open file when the Close call takes its lock.
HoldsOpenFile == fw.file \in {"open", "closing"}

\* C26: Close syncs and closes the handle the writer holds, and a Close on a
\* writer that holds no open file changes nothing and returns no error or one that
\* can be ignored.
C26_CloseSyncsAndTolerates ==
  [][CloseReturns =>
       IF HoldsOpenFile
       THEN /\ CloseResult.sync /\ CloseResult.close /\ ~CloseResult.err
            /\ fw'.file \in {"closed", "nil"}
       ELSE fw' = fw /\ disk' = disk]_vars

\* C26 amended: Close closes the handle the writer holds, after a Sync in the
\* later revision and without one in file_writer.go, and returns no error on a
\* file system that does not fail; a Close on a writer that holds no open file
\* changes neither the writer nor the files: the later revision does nothing and
\* returns nil, file_writer.go calls Close on the closed file again and returns its
\* error.
C26_CloseClosesAndTolerates ==
  [][CloseReturns =>
       IF HoldsOpenFile
       THEN /\ CloseResult = Closed(fw.impl = "rotate", TRUE, FALSE)
            /\ fw'.file = (IF fw.impl = "rotate" THEN "nil" ELSE "closed")
            /\ disk' = disk
       ELSE /\ fw' = fw
            /\ disk' = disk
            /\ CloseResult = (IF fw.impl = "rotate" THEN Closed(FALSE, FALSE, FALSE)
                                                   ELSE Closed(FALSE, TRUE, TRUE))]_vars

\* Close was called twice on a writer of file_writer.go: the first call closed the
\* file, the second returned the error of closing it again.
C26_Witness ==
  /\ fw.impl = "swap"
  /\ fw.file = "closed"
  /\ hist.closes = <<Closed(FALSE, TRUE, FALSE), Closed(FALSE, TRUE, TRUE)>>

\* ------------------------------------------------------------------ prune requests

\* A rotation of the writer completes in this step.
Rotates == hist'.rotations = hist.rotations + 1

UpperCase == <<"A", "B", "C", "D", "E", "F", "G", "H", "I", "J", "K", "L", "M", "N", "O", "P", "Q", "R", "S", "T", "U", "V", "W", "X", "Y", "Z">>
LowerCase == <<"a", "b", "c", "d", "e", "f", "g", "h", "i", "j", "k", "l", "m", "n", "o", "p", "q", "r", "s", "t", "u", "v", "w", "x", "y", "z">>

ToLowerChar(c) ==
  IF \E i \in DOMAIN UpperCase : UpperCase[i] = c
  THEN LowerCase[CHOOSE i \in DOMAIN UpperCase : UpperCase[i] = c]
  ELSE c

\* strings.ToLower
ToLower(str) == [i \in DOMAIN str |-> ToLowerChar(str[i])]

RECURSIVE TrimLeft(_)
TrimLeft(str) ==
  IF str # <<>> /\ Head(str) = " " THEN TrimLeft(Tail(str)) ELSE str

RECURSIVE TrimRight(_)
TrimRight(str) ==
  IF str # <<>> /\ str[Len(str)] = " " THEN TrimRight(SubSeq(str, 1, Len(str) - 1)) ELSE str

\* strings.TrimSpace
TrimSpace(str) == TrimRight(TrimLeft(str))

\* ParseLevel: the level named by the string, trimmed and in lower case, or the zero
\* level and an error.
ParseLevel(str) ==
  LET k == ToLower(TrimSpace(str))
  IN
  CASE k \in {<<"p", "a", "n", "i", "c">>, <<"p", "n", "c">>} -> [level |-> PanicLevel, err |-> FALSE]
    [] k \in {<<"f", "a", "t", "a", "l">>, <<"f", "a", "t">>} -> [level |-> FatalLevel, err |-> FALSE]
    [] k \in {<<"e", "r", "r", "o", "r">>, <<"e", "r", "r">>} -> [level |-> ErrorLevel, err |-> FALSE]
    [] k \in {<<"w", "a", "r", "n">>, <<"w", "a", "n">>, <<"w", "a", "r", "n", "i", "n", "g">>} -> [level |-> WarnLevel, err |-> FALSE]
    [] k \in {<<"i", "n", "f", "o">>, <<"i", "n", "f">>, <<"e", "c", "h", "o">>} -> [level |-> InfoLevel, err |-> FALSE]
    [] k \in {<<"d", "e", "b", "u", "g">>, <<"d", "b", "g">>} -> [level |-> DebugLevel, err |-> FALSE]
    [] k \in {<<"t", "r", "a", "c", "e">>, <<"t", "a", "c">>, <<"p", "r", "i", "n", "t">>} -> [level |-> TraceLevel, err |-> FALSE]
    [] OTHER -> [level |-> 0, err |-> TRUE]

\* The strings given to the setters: names in several spellings, and strings that
\* name no level.
LevelStrings ==
  {<<"i", "n", "f", "o">>,
   <<" ", "I", "N", "F", "O", " ">>,
   <<"W", "a", "r", "n", "i", "n", "g">>,
   <<"p", "n", "c">>,
   <<"u", "n", "k", "n", "o", "w", "n">>,
   <<>>,
   <<"8">>,
   <<" ">>}

\* logger.SetLevel as SetLevelString and ForceSetLevelString call it.
StoreLevel(c, level) == IF IsValid(level) THEN [c EXCEPT !.level = level] ELSE c

\* A call of one of the string setters, with what it returns.
SetLevelByString(name, str, result) ==
  /\ alive
  /\ pc = "idle"
  /\ LET r == ParseLevel(str)
     IN /\ core' = IF r.err THEN core ELSE StoreLevel(core, r.level)
        /\ trace' = <<Ev(name, IF r.err THEN result ELSE "nil", r.level, str)>>
  /\ pc' = "done"
  /\ UNCHANGED <<nsetup, nhooks, handles, pool, call, entity, selw, alive>>
  /\ UNCHANGED fwVars

\* logger.SetLevelString: the error of ParseLevel is returned.
SetLevelString(str) == SetLevelByString("SetLevelString", str, "err")

\* logger.ForceSetLevelString: no error is returned.
ForceSetLevelString(str) == SetLevelByString("ForceSetLevelString", str, "nil")

\* A call that asks whether a level is enabled, with its answer.
Ask(name, threshold, l) ==
  /\ alive
  /\ pc = "idle"
  /\ trace' = <<Ev(name, IF IsEnabled(threshold, l) THEN "true" ELSE "false", l, threshold)>>
  /\ pc' = "done"
  /\ UNCHANGED <<core, nsetup, nhooks, handles, pool, call, entity, selw, alive>>
  /\ UNCHANGED fwVars

\* Level.IsEnabled on a level value.
LevelIsEnabled(threshold, l) == Ask("IsEnabled", threshold, l)

\* log.IsLevelEnabled: Level.IsEnabled on the threshold of the logger.
IsLevelEnabled(o, l) == Ask("IsLevelEnabled", core.level, l)

\* The threshold of a logger, the ways of setting it and of asking whether a level
\* is enabled, and the records logged through the root handle.
LevelNext ==
  \/ \E level \in SetLevelInputs : SetLevel(level)
  \/ \E str \in LevelStrings : SetLevelString(str)
  \/ \E str \in LevelStrings : ForceSetLevelString(str)
  \/ \E threshold \in Levels, l \in Levels : LevelIsEnabled(threshold, l)
  \/ \E l \in Levels : IsLevelEnabled(RootHandle, l)
  \/ \E level \in {0, InfoLevel, 8} : Log(RootHandle, level, "m")
  \/ Format
  \/ Hooks
  \/ Write
  \/ Terminal
  \/ PutEntity
  \/ Return

LevelSpec == Init /\ [][LevelNext]_vars

\* C28: a level outside the declared set is disabled in every enablement check:
\* Level.IsEnabled answers false for it under every threshold value, valid or not,
\* and so does the handle's IsLevelEnabled.
C28_InvalidLevelIsDisabled ==
  \A i \in At({"IsEnabled", "IsLevelEnabled"}) :
    ~IsValid(trace[i].n) => trace[i].arg = "false"

\* A string setter returns in this step.
StringSetterReturns ==
  /\ pc = "idle"
  /\ pc' = "done"
  /\ trace' # <<>>
  /\ trace'[1].ev \in {"SetLevelString", "ForceSetLevelString"}

\* C29: the threshold of the logger is a valid level in every state: no SetLevel
\* stores an invalid one; SetLevelString and ForceSetLevelString with a string that
\* names no level leave the logger as it is, SetLevelString returning an error and
\* ForceSetLevelString none; with a string that names a level they store that level
\* and return no error.
C29_ThresholdStaysValid ==
  [][/\ IsValid(core.level)
     /\ IsValid(core'.level)
     /\ StringSetterReturns =>
          LET e == trace'[1]
              r == ParseLevel(e.data)
          IN IF r.err
             THEN /\ core' = core
                  /\ e.arg = (IF e.ev = "SetLevelString" THEN "err" ELSE "nil")
             ELSE /\ IsValid(r.level)
                  /\ core' = [core EXCEPT !.level = r.level]
                  /\ e.arg = "nil"]_vars

\* SetLevelString("unknown") has returned an error on a logger whose threshold had
\* been set to Info: the threshold is still Info.
C29_Witness ==
  /\ pc = "done"
  /\ core.level = InfoLevel
  /\ trace = <<Ev("SetLevelString", "err", 0, <<"u", "n", "k", "n", "o", "w", "n">>)>>

\* ------------------------------------------------------------------ caller reports

\* One logger with its global and its Info caller reporter, handles made with
\* WithCaller, and the records logged through them.
CallerNext ==
  \/ \E skip \in {0, 1} : EnableCaller(skip)
  \/ EnableLevelCaller(InfoLevel, 2)
  \/ \E o \in handles : WithCaller(o, 4)
  \/ \E o \in handles, level \in OutputLevels : Log(o, level, "m")
  \/ Format
  \/ Hooks
  \/ Write
  \/ Terminal
  \/ PutEntity
  \/ Return

\* A new logger, or one on which EnableCaller(1) has been called.
CallerInit ==
  /\ core \in {NewCore, [NewCore EXCEPT !.caller = NewCallerReporter(1)]}
  /\ nsetup = 0
  /\ nhooks = 0
  /\ handles = {RootHandle}
  /\ pool = {}
  /\ pc = "idle"
  /\ call = NoCall
  /\ entity = NewEntity
  /\ selw = Nil
  /\ trace = <<>>
  /\ alive = TRUE
  /\ FwOff
  /\ wr = NoWrapper /\ js = NoFormatter

CallerSpec == CallerInit /\ [][CallerNext]_vars

\* The caller report of a record when only the reporter r is looked at.
ReportOf(r) == GetCaller(Skip(r) + core.callerSkip, core.callerLong)

\* C30: the caller of a record is that of the most specific setting present: the
\* handle's override, else the reporter of the record's level, else the global
\* reporter, else none; the less specific settings do not alter it.
C30_MostSpecificCallerOnly ==
  InRecord =>
    entity.caller =
      (IF call.h.caller # <<>> THEN ReportOf(call.h.caller)
       ELSE IF core.levelCaller[call.level] # <<>> THEN ReportOf(core.levelCaller[call.level])
       ELSE IF core.caller # <<>> THEN ReportOf(core.caller)
       ELSE <<>>)

\* C30 amended: a record has a caller if the handle has an override or the core
\* has a reporter for the record's level or a global one. Of the two reporters of
\* the core the one of the level is used and the global one ignored when both are
\* set. The handle's override does not replace the reporter of the core: the
\* frames it skips are added to those of that reporter.
C30_CoreReporterPlusOverride ==
  InRecord =>
    LET ofCore == IF core.levelCaller[call.level] # <<>>
                  THEN core.levelCaller[call.level] ELSE core.caller
        skipped == (IF ofCore = <<>> THEN 0 ELSE Skip(ofCore))
                   + (IF call.h.caller = <<>> THEN 0 ELSE Skip(call.h.caller))
    IN entity.caller =
         (IF ofCore = <<>> /\ call.h.caller = <<>> THEN <<>>
          ELSE GetCaller(skipped + core.callerSkip, core.callerLong))

\* An Info record of a handle made with WithCaller(4) on a logger with a global
\* reporter (skip 1) and an Info reporter (skip 2): its caller is 6 frames up.
C30_Witness ==
  /\ InRecord
  /\ call.level = InfoLevel
  /\ call.h.caller = NewCallerReporter(4)
  /\ core.levelCaller[InfoLevel] = NewCallerReporter(2)
  /\ core.caller = NewCallerReporter(1)
  /\ entity.caller = GetCaller(6, FALSE)

\* ------------------------------------------------------------------ multi_writer.go

\* An argument of NewMultiWriter: a writer of its own, or a multi-writer made
\* earlier with the writers it holds.
Plain(w) == [multi |-> FALSE, ws |-> <<w>>]
Multi(ws) == [multi |-> TRUE, ws |-> ws]

MultiArgs ==
  {Plain("a"), Plain("b"), Multi(<<>>), Multi(<<"c">>), Multi(<<"c", "a">>)}

\* The argument lists given to NewMultiWriter.
MultiArgLists ==
  {<<>>} \cup {<<x>> : x \in MultiArgs} \cup {<<x, y>> : x, y \in MultiArgs}

\* The payloads written, by their length.
PayloadLens == {0, 2}

RECURSIVE NewMultiWriter(_)
\* NewMultiWriter: the writers of the arguments in order, those of a multi-writer
\* argument in its place.
NewMultiWriter(args) ==
  IF args = <<>> THEN <<>> ELSE Head(args).ws \o NewMultiWriter(Tail(args))

\* A multi-writer at rest.
MultiWriter(args) ==
  [kind |-> "multi", args |-> args, writers |-> NewMultiWriter(args), pc |-> "idle",
   len |-> 0, i |-> 0, n |-> 0, err |-> <<>>, results |-> <<>>, ret |-> <<>>]

\* A Write loop that ends at the first writer that fails.
LoopUntilError(i, j, e) == IF i = j \/ e # <<>> THEN "return" ELSE "loop"

\* multiWriter.Write, the loop: every writer has its turn.
Loop(i, j, e) == IF i = j THEN "return" ELSE "loop"

\* A count that adds up what the writers report.
SumCount(n, k) == n + k

\* multiWriter.Write: if k > n { n = k }.
MaxCount(n, k) == IF k > n THEN k ELSE n

\* multiWriter.Write is called with a payload: without writers it returns
\* len(p), nil at once.
MultiWrite(len) ==
  /\ wr.kind = "multi"
  /\ wr.pc = "idle"
  /\ wr' = IF Len(wr.writers) > 0
           THEN [wr EXCEPT !.pc = "loop", !.len = len, !.i = 0, !.n = 0, !.err = <<>>,
                           !.results = <<>>, !.ret = <<>>]
           ELSE [wr EXCEPT !.pc = "done", !.len = len, !.i = 0, !.n = 0, !.err = <<>>,
                           !.results = <<>>, !.ret = <<len, <<>>>>]
  /\ UNCHANGED <<fw, disk, now, writers, mu, clear, hist, js>>
  /\ UNCHANGED logVars

\* One turn of the loop: writer i+1 is given the payload and reports k bytes and an
\* error or none; a short count without an error counts as io.ErrShortWrite.
MultiWriteNext ==
  /\ wr.kind = "multi"
  /\ wr.pc = "loop"
  /\ \E k \in 0..wr.len, failed \in BOOLEAN :
       LET i == wr.i + 1
           e == IF failed THEN <<"error", i>>
                ELSE IF k # wr.len THEN <<"short", i>> ELSE <<>>
       IN wr' = [wr EXCEPT !.i = i,
                           !.results = Append(@, [to |-> wr.writers[i], k |-> k, e |-> e]),
                           !.err = IF @ = <<>> THEN e ELSE @,
                           !.n = MaxCount(@, k),
                           !.pc = Loop(i, Len(wr.writers), e)]
  /\ UNCHANGED <<fw, disk, now, writers, mu, clear, hist, js>>
  /\ UNCHANGED logVars

\* return n, err
MultiWriteReturn ==
  /\ wr.kind = "multi"
  /\ wr.pc = "return"
  /\ wr' = [wr EXCEPT !.pc = "done", !.ret = <<wr.n, wr.err>>]
  /\ UNCHANGED <<fw, disk, now, writers, mu, clear, hist, js>>
  /\ UNCHANGED logVars

\* The caller goes on to its next Write.
MultiWriteAgain ==
  /\ wr.kind = "multi"
  /\ wr.pc = "done"
  /\ wr' = MultiWriter(wr.args)
  /\ UNCHANGED <<fw, disk, now, writers, mu, clear, hist, js>>
  /\ UNCHANGED logVars

\* A multi-writer made by NewMultiWriter from any of the argument lists.
MultiInit ==
  /\ LogInit
  /\ FwOff
  /\ \E args \in MultiArgLists : wr = MultiWriter(args)
  /\ js = NoFormatter

MultiNext ==
  \/ \E len \in PayloadLens : MultiWrite(len)
  \/ MultiWriteNext
  \/ MultiWriteReturn
  \/ MultiWriteAgain

MultiSpec == MultiInit /\ [][MultiNext]_vars

\* The writers a multi-writer made from the arguments is to write to: the
\* arguments that are writers of their own, and the writers of those that are
\* multi-writers.
Underlying ==
  (IF Len(wr.args) >= 1 THEN wr.args[1].ws ELSE <<>>)
    \o (IF Len(wr.args) >= 2 THEN wr.args[2].ws ELSE <<>>)

\* C31: a Write of a multi-writer hands the payload to every underlying writer,
\* those of nested multi-writers included, exactly once and in order: while it
\* runs, the writers served are the first of them, each once; when it returns, all
\* of them have been served, whether or not one of them failed.
C31_EveryWriterServedOnce ==
  (wr.pc # "idle" /\ Underlying # <<>>) =>
    /\ Len(wr.results) <= Len(Underlying)
    /\ \A i \in DOMAIN wr.results : wr.results[i].to = Underlying[i]
    /\ wr.pc \in {"return", "done"} => Len(wr.results) = Len(Underlying)

\* A multi-writer made of a and of a multi-writer of c and a has returned from a
\* Write in which the first writer failed and the two after it were served.
C31_Witness ==
  /\ wr.pc = "done"
  /\ wr.args = <<Plain("a"), Multi(<<"c", "a">>)>>
  /\ Len(wr.results) = 3
  /\ wr.results[1].e = <<"error", 1>>
  /\ wr.results[2].to = "c"
  /\ wr.results[3].to = "a"

\* The turns of the loop in which the writer returned an error.
Failed == {i \in DOMAIN wr.results : wr.results[i].e # <<>> /\ wr.results[i].e[1] = "error"}

\* The turns in which the writer returned an error or a count short of the payload.
FailedOrShort == {i \in DOMAIN wr.results : wr.results[i].e # <<>>}

\* The greatest of the counts the writers reported.
IsMaxCount(n) ==
  /\ \A i \in DOMAIN wr.results : wr.results[i].k <= n
  /\ \E i \in DOMAIN wr.results : wr.results[i].k = n

\* C32: a Write of a multi-writer returns the error of the first writer that
\* returned one, and nil if no writer returned an error, with the greatest count a
\* writer reported; without writers it returns the length of the payload and nil.
C32_FirstErrorAndMaxCount ==
  wr.pc = "done" =>
    IF wr.writers = <<>> THEN wr.ret = <<wr.len, <<>>>>
    ELSE /\ IsMaxCount(wr.ret[1])
         /\ wr.ret[2] = (IF Failed = {} THEN <<>>
                         ELSE wr.results[CHOOSE i \in Failed : \A j \in Failed : i <= j].e)

\* C32 amended: a writer that reports a count other than the length of the payload
\* without an error counts as having failed with io.ErrShortWrite; the Write
\* returns the error of the first writer that failed in either way, nil if none
\* did, with the greatest count a writer reported; without writers it returns the
\* length of the payload and nil.
C32_FirstErrorOrShortWrite ==
  wr.pc = "done" =>
    IF wr.writers = <<>> THEN wr.ret = <<wr.len, <<>>>>
    ELSE /\ IsMaxCount(wr.ret[1])
         /\ wr.ret[2] = (IF FailedOrShort = {} THEN <<>>
                         ELSE wr.results[CHOOSE i \in FailedOrShort :
                                           \A j \in FailedOrShort : i <= j].e)

\* A Write of two bytes to two writers has returned: the first reported one byte
\* and no error, the second two bytes and an error; the Write returns two bytes
\* and the short write of the first.
C32_Witness ==
  /\ wr.pc = "done"
  /\ wr.len = 2
  /\ Len(wr.results) = 2
  /\ wr.results[1].k = 1
  /\ wr.results[1].e = <<"short", 1>>
  /\ wr.results[2].k = 2
  /\ wr.results[2].e = <<"error", 2>>
  /\ wr.ret = <<2, <<"short", 1>>>>

\* ------------------------------------------------------------------ mutex writer

\* A goroutine that is not inside mutexWriter.Write.
NoMutexWrite == [pc |-> "idle", len |-> 0, got |-> <<>>, ret |-> <<>>]

\* NewMutexWriter(w): the wrapper with its mutex free, the goroutines that call its
\* Write, and the wrapped writer: the Write calls it has in progress and has had.
NewMutexWriter ==
  [kind |-> "mutex", mu |-> 0, of |-> [g \in Writers |-> NoMutexWrite],
   made |-> 0, served |-> 0, active |-> 0]

MutexFrame == UNCHANGED <<fw, disk, now, writers, mu, clear, hist, js>> /\ UNCHANGED logVars

\* A goroutine calls Write on the wrapper and arrives at w.mu.Lock().
MutexWriterCall(g, len) ==
  /\ wr.kind = "mutex"
  /\ wr.of[g].pc = "idle"
  /\ wr.made < MaxWrites
  /\ wr' = [wr EXCEPT !.of[g] = [NoMutexWrite EXCEPT !.pc = "lock", !.len = len],
                      !.made = @ + 1]
  /\ MutexFrame

\* A Lock that does not wait for the mutex.
MutexWriterNoLock(g) ==
  /\ wr.kind = "mutex"
  /\ wr.of[g].pc = "lock"
  /\ wr' = [wr EXCEPT !.mu = g, !.of[g].pc = "locked"]
  /\ MutexFrame

\* w.mu.Lock() returns once the mutex is free.
MutexWriterLock(g) ==
  /\ wr.kind = "mutex"
  /\ wr.of[g].pc = "lock"
  /\ wr.mu = 0
  /\ wr' = [wr EXCEPT !.mu = g, !.of[g].pc = "locked"]
  /\ MutexFrame

\* w.w.Write(p) is entered with the payload of the call.
MutexWriterWrite(g) ==
  /\ wr.kind = "mutex"
  /\ wr.of[g].pc = "locked"
  /\ wr' = [wr EXCEPT !.of[g].pc = "writing", !.of[g].got = <<wr.of[g].len>>,
                      !.active = @ + 1, !.served = @ + 1]
  /\ MutexFrame

\* w.w.Write(p) returns a count and an error or none; they are the results of the
\* call, which returns after the deferred w.mu.Unlock().
MutexWriterUnlock(g) ==
  /\ wr.kind = "mutex"
  /\ wr.of[g].pc = "writing"
  /\ \E k \in 0..wr.of[g].len, failed \in BOOLEAN :
       wr' = [wr EXCEPT !.of[g].pc = "done", !.of[g].ret = <<k, failed>>,
                        !.active = @ - 1, !.mu = 0]
  /\ MutexFrame

\* The goroutine goes on to its next call.
MutexWriterAgain(g) ==
  /\ wr.kind = "mutex"
  /\ wr.of[g].pc = "done"
  /\ wr' = [wr EXCEPT !.of[g] = NoMutexWrite]
  /\ MutexFrame

MutexInit == LogInit /\ FwOff /\ wr = NewMutexWriter /\ js = NoFormatter

MutexNext ==
  \/ \E g \in Writers, len \in PayloadLens : MutexWriterCall(g, len)
  \/ \E g \in Writers : MutexWriterLock(g)
  \/ \E g \in Writers : MutexWriterWrite(g)
  \/ \E g \in Writers : MutexWriterUnlock(g)
  \/ \E g \in Writers : MutexWriterAgain(g)

MutexSpec == MutexInit /\ [][MutexNext]_vars

\* C33: writes through a mutex writer are serialized: the wrapped writer never
\* has two Write calls in progress, and every Write on the wrapper reaches the
\* wrapped writer exactly once: the calls the wrapped writer has had are the calls
\* made on the wrapper less those still before the wrapped Write, and a call that
\* has returned handed its payload to the wrapped writer once.
C33_WritesSerialized ==
  /\ wr.active <= 1
  /\ wr.active = Cardinality({g \in Writers : wr.of[g].pc = "writing"})
  /\ wr.served = wr.made - Cardinality({g \in Writers : wr.of[g].pc \in {"lock", "locked"}})
  /\ \A g \in Writers : wr.of[g].pc = "done" => wr.of[g].got = <<wr.of[g].len>>

\* One goroutine is inside the wrapped Write while another waits for the mutex,
\* after an earlier Write has returned.
C33_Witness ==
  \E g, h \in Writers :
    /\ wr.of[g].pc = "writing"
    /\ wr.of[h].pc = "lock"
    /\ wr.made = 3
    /\ wr.served = 2
\* ------------------------------------------------------------------ JSON formatter

\* The keys of the top-level JSON object.
JSONKeys == {"name", "time", "level", "message", "fields", "caller", "stack"}

NoKeys == [k \in {} |-> ""]

\* The keys arguments of NewJSONFormatter: none, a key renamed, a key mapped to its
\* own name, a key mapped to the empty string, two keys renamed, an unknown key.
KeyMaps ==
  {NoKeys,
   [k \in {"message"} |-> "msg"],
   [k \in {"message"} |-> "message"],
   [k \in {"message"} |-> ""],
   [k \in {"name", "stack"} |-> IF k = "name" THEN "n" ELSE "s"],
   [k \in {"hello"} |-> "hello"]}

\* The records handed to Format: what the Entity methods return.
Entities ==
  [name : {"", "test"}, time : {"", "t"}, message : {"m"}, fields : {0, 1},
   caller : {"", "c"}, stack : {0, 1}]

\* Go values on their way to the encoder.
GoString(str) == [kind |-> "string", str |-> str, len |-> 0]
GoStringPtr(str) == [kind |-> "*string", str |-> str, len |-> 0]
GoNil == [kind |-> "nil", str |-> "", len |-> 0]
GoStruct == [kind |-> "struct{}", str |-> "", len |-> 0]
GoMap(n) == [kind |-> "map", str |-> "", len |-> n]
GoSlice(n) == [kind |-> "[]string", str |-> "", len |-> n]

\* encoding/json: what omitempty leaves out: an empty string, a nil pointer, a nil
\* interface, a slice of length zero.
IsEmptyValue(v) ==
  \/ v.kind = "string" /\ v.str = ""
  \/ v.kind = "nil"
  \/ v.kind = "[]string" /\ v.len = 0

\* encoding/json: the JSON value a Go value is encoded as.
Encoded(v) ==
  CASE v.kind \in {"string", "*string"} -> [json |-> "string", str |-> v.str, len |-> 0]
    [] v.kind \in {"struct{}", "map"} -> [json |-> "object", str |-> "", len |-> v.len]
    [] v.kind = "[]string" -> [json |-> "array", str |-> "", len |-> v.len]
    [] OTHER -> [json |-> "null", str |-> "", len |-> 0]

\* The keys of the given map that change the name of a key.
Remapped(keys) == {k \in DOMAIN keys : keys[k] # "" /\ keys[k] # k}

\* NewJSONFormatter(keys, full): an error for an unknown key, the map pool when a
\* key is renamed, the pool of structures otherwise.
NewJSONFormatter(keys, full) ==
  LET mapping == [k \in JSONKeys |-> IF k \in Remapped(keys) THEN keys[k] ELSE k]
      f == [kind |-> "json", err |-> FALSE, pool |-> "object", full |-> full,
            mapping |-> [k \in JSONKeys |-> k], e |-> <<>>, out |-> <<>>]
  IN IF \E k \in DOMAIN keys : k \notin JSONKeys
       THEN [f EXCEPT !.err = TRUE, !.pool = Nil]
       ELSE IF Remapped(keys) # {}
              THEN [f EXCEPT !.pool = "map", !.mapping = mapping]
              ELSE f

\* kv[key] = v
SetKey(kv, key, v) == [k \in DOMAIN kv \cup {key} |-> IF k = key THEN v ELSE kv[k]]

\* jsonFormatterMapPool.GetObject
MapPoolGetObject(p, e) ==
  LET kv0 == SetKey(SetKey(NoKeys, p.mapping["level"], GoString("info")),
                    p.mapping["message"], GoString(e.message))
      kv1 == IF p.full \/ e.name # "" THEN SetKey(kv0, p.mapping["name"], GoString(e.name)) ELSE kv0
      kv2 == IF p.full \/ e.time # "" THEN SetKey(kv1, p.mapping["time"], GoString(e.time)) ELSE kv1
      kv3 == IF e.fields > 0 THEN SetKey(kv2, p.mapping["fields"], GoMap(e.fields))
             ELSE IF p.full THEN SetKey(kv2, p.mapping["fields"], GoStruct) ELSE kv2
      kv4 == IF p.full \/ e.caller # "" THEN SetKey(kv3, p.mapping["caller"], GoString(e.caller)) ELSE kv3
  IN IF e.stack > 0 THEN SetKey(kv4, p.mapping["stack"], GoSlice(e.stack))
     ELSE IF p.full THEN SetKey(kv4, p.mapping["stack"], GoSlice(0)) ELSE kv4

\* jsonFormatterObjectPool.GetObject: the structure taken from the pool, where
\* PutObject left every field zero.
ObjectPoolGetObject(p, e) ==
  [Caller |-> IF p.full \/ e.caller # "" THEN GoStringPtr(e.caller) ELSE GoNil,
   Fields |-> IF e.fields > 0 THEN GoMap(e.fields) ELSE IF p.full THEN GoStruct ELSE GoNil,
   Level |-> GoString("info"),
   Message |-> GoString(e.message),
   Name |-> GoString(e.name),
   Stack |-> IF e.stack > 0 THEN GoSlice(e.stack) ELSE IF p.full THEN GoSlice(0) ELSE GoNil,
   Time |-> IF p.full \/ e.time # "" THEN GoStringPtr(e.time) ELSE GoNil]

\* The json tags of jsonFormatterObject.
jsonFormatterObject ==
  [Caller |-> [key |-> "caller", omitempty |-> TRUE],
   Fields |-> [key |-> "fields", omitempty |-> TRUE],
   Level |-> [key |-> "level", omitempty |-> FALSE],
   Message |-> [key |-> "message", omitempty |-> FALSE],
   Name |-> [key |-> "name", omitempty |-> TRUE],
   Stack |-> [key |-> "stack", omitempty |-> TRUE],
   Time |-> [key |-> "time", omitempty |-> TRUE]]

\* json.Encoder.Encode of the structure: a member per field that omitempty keeps.
EncodeObject(o) ==
  LET kept == {f \in DOMAIN jsonFormatterObject :
                 ~(jsonFormatterObject[f].omitempty /\ IsEmptyValue(o[f]))}
  IN [k \in {jsonFormatterObject[f].key : f \in kept} |->
        Encoded(o[CHOOSE f \in kept : jsonFormatterObject[f].key = k])]

\* json.Encoder.Encode of the map: a member per key.
EncodeMap(kv) == [k \in DOMAIN kv |-> Encoded(kv[k])]

\* jsonFormatter.Format(e, b): the object of the pool, encoded.
JsonFormat(e) ==
  /\ js.kind = "json"
  /\ ~js.err
  /\ js' = [js EXCEPT !.e = <<e>>,
                      !.out = <<IF js.pool = "map" THEN EncodeMap(MapPoolGetObject(js, e))
                                ELSE EncodeObject(ObjectPoolGetObject(js, e))>>]
  /\ UNCHANGED <<fw, disk, now, writers, mu, clear, hist, wr>>
  /\ UNCHANGED logVars

\* A formatter made by NewJSONFormatter from any of the key maps, in either mode.
JsonInit ==
  /\ LogInit
  /\ FwOff
  /\ wr = NoWrapper
  /\ \E keys \in KeyMaps, full \in BOOLEAN : js = NewJSONFormatter(keys, full)

JsonNext == \E e \in Entities : JsonFormat(e)

JsonSpec == JsonInit /\ [][JsonNext]_vars

\* The emitted object has a member under every key's name.
HasEveryKey == \A k \in JSONKeys : js.mapping[k] \in DOMAIN js.out[1]

\* C34: a JSON formatter in full mode puts every recognized key (name, time,
\* level, message, fields, caller, stack) in every object it emits, even when the
\* value is empty, with the default keys and with renamed keys.
C34_FullModeHasEveryKey ==
  (js.kind = "json" /\ ~js.err /\ js.full /\ js.out # <<>>) => HasEveryKey
\* ------------------------------------------------------------------ rotation failures, limits, retention

\* A swap has failed to reopen the log file.
SwapFailed == fw.impl = "swap" /\ hist.failed > 0

\* C35: (file_writer.go) if a log rotation fails, later writes continue to go to
\* the log file and rotation is tried again on later writes until it succeeds:
\* once no swap is in progress the writer holds an open handle on the log file, the
\* one thing through which a Write puts bytes into the file and, having put some,
\* calls swap.
C35_FailedSwapKeepsWriting == (SwapFailed /\ mu = 0) => fw.file = "open"

\* No goroutine is inside Write.
NoWriteInProgress == \A p \in Writers : writers[p].pc \in {"idle", "off"}

\* C36 as stated: a file writer with max > 0 has its running counter strictly below
\* max whenever no Write is in progress, also right after construction on a file
\* that was there before.
C36_CounterBelowMax == (fw.impl # Nil /\ fw.max > 0 /\ NoWriteInProgress) => fw.size < fw.max

\* C36: in the later revision, whenever no Write is in progress the running counter
\* is at most max, and strictly below max once a Write has been made: it equals max
\* only from the construction on a file of exactly max bytes to the first Write.
C36_LaterRevisionAtMostMax ==
  (fw.impl = "rotate" /\ fw.max > 0 /\ NoWriteInProgress) =>
    /\ fw.size <= fw.max
    /\ hist.writes > 0 => fw.size < fw.max

\* The later revision after a Write that rotated and one that left the counter
\* between zero and max.
C36_Witness ==
  /\ fw.impl = "rotate"
  /\ fw.max > 0
  /\ NoWriteInProgress
  /\ hist.rotations >= 1
  /\ hist.writes >= 2
  /\ fw.size > 0

RECURSIVE SizeOfAll(_, _)
\* The bytes held by the named files of the directory.
SizeOfAll(files, names) ==
  IF names = {} THEN 0
  ELSE LET f == CHOOSE g \in names : TRUE
       IN files[f] + SizeOfAll(files, names \ {f})

\* The bytes of the log on disk: those of the primary file and of the backups.
BytesOnDisk(d) ==
  (IF d.primary = Absent THEN 0 ELSE d.primary) + SizeOfAll(d.backups, DOMAIN d.backups)

\* C37: bytes written through the file writer are never destroyed by rotation,
\* also when its rename or reopen fails: with no pruning at work, no step of a
\* writer leaves fewer bytes in the primary file and the backups than there were.
C37_RotationKeepsBytes == [][BytesOnDisk(disk') >= BytesOnDisk(disk)]_vars

\* A pruning goroutine has made its pass.
Pruned == clear' < clear

\* C38: backup pruning deletes only rotated backups of the writer's own log file:
\* never the log file, and never a file of the directory that is not a backup the
\* writer made.
C38_PrunesOwnBackupsOnly ==
  [][Pruned => /\ (DOMAIN disk.backups \ DOMAIN disk'.backups) \subseteq hist.made
               /\ disk.primary # Absent => disk'.primary # Absent]_vars

\* ------------------------------------------------------------------ the field map of a record

\* A hook stores a key in the map that Entity.Fields() returns: the map getEntity
\* took from the handle of the call, which every handle made from it without a
\* new field holds as well. (A store into the nil map of a handle without fields
\* panics in the hook; it is left out.)
FieldsStore(key, value) ==
  /\ alive
  /\ pc = "hooks"
  /\ call.h.map # 0
  /\ <<key, value>> \notin entity.fields
  /\ handles' = Store(handles, call.h.map, key, value)
  /\ entity' = [entity EXCEPT !.fields = SetField(@, key, value)]
  /\ call' = [call EXCEPT !.h.fields = SetField(@, key, value)]
  /\ UNCHANGED <<core, nsetup, nhooks, pool, pc, selw, trace, alive>>
  /\ UNCHANGED fwVars

SnapshotNext ==
  \/ FieldsStore("x", 9)
  \/ HandleNext

\* The logger of HandleInit, with hooks that store into the field map of the record.
SnapshotSpec == HandleInit /\ [][SnapshotNext]_vars

\* C39: a record's fields are a snapshot of the emitting handle's fields: what a
\* hook stores into the field map of a record changes no handle, so that every
\* handle holds the fields it was made with, and no later record, so that every
\* record starts with the fields its handle was made with.
C39_RecordFieldsAreSnapshot ==
  /\ \A h \in handles : h.fields = Own(h)
  /\ pc = "format" => entity.fields = Own(call.h)

\* ------------------------------------------------------------------ the message of a panic

\* A new logger, its handles with and without a message prefix, and Panic and
\* Error calls through them, with the default panic function or one that returns.
PanicNext ==
  \/ \E f \in {Nil, "panic", "return"} : SetPanicFunc(f)
  \/ \E o \in handles : WithMessagePrefix(o, "p:")
  \/ \E o \in handles, level \in {PanicLevel, ErrorLevel}, message \in {"", "m"} :
       Log(o, level, message)
  \/ Format
  \/ Hooks
  \/ Write
  \/ Terminal
  \/ PutEntity
  \/ Return

PanicSpec == Init /\ [][PanicNext]_vars

\* The panic function has been called and log.record still holds the record.
PanicFuncCalled == At({"panic"}) # {} /\ pc \in {"unwind", "defer"}

\* C40 as stated: on an enabled Panic call the message handed to the panic
\* function is the final message of the record, the handle's prefix included.
C40_PanicMessageIsFinal ==
  PanicFuncCalled => \A i \in At({"panic"}) : trace[i].arg = entity.message

\* C40: on an enabled Panic call the message handed to the panic function is the
\* message given to the call; the final message of the record is the handle's
\* prefix followed by it.
C40_PanicMessageLacksPrefix ==
  PanicFuncCalled =>
    \A i \in At({"panic"}) :
      /\ trace[i].arg = call.message
      /\ entity.message = call.h.prefix \o trace[i].arg

\* A Panic call through a handle with the prefix "p:": the record says "p:m", the
\* panic function was handed "m" and panicked.
C40_Witness ==
  /\ PanicFuncCalled
  /\ pc = "unwind"
  /\ call.h.prefix = "p:"
  /\ entity.message = "p:m"
  /\ \E i \in At({"panic"}) : trace[i].arg = "m"
====
